---- MODULE Spec2Model ----
(***************************************************************************)
(* Ingestion pipeline of the financial data system: the period validator   *)
(* (app/validators.py) and the load coordinator (app/services/             *)
(* data_service.py) working on a SQLAlchemy session over the               *)
(* financial_periods table (app/models.py, app/database.py).               *)
(*                                                                         *)
(* JSON / Python values are records of one field named after the kind of  *)
(* the value: [num |-> 100], [str |-> "2024-01-01"], [obj |-> TRUE],       *)
(* [null |-> TRUE].  Dictionaries are functions from key strings; a parsed *)
(* date is the tuple <<year, month, day>>.                                 *)
(***************************************************************************)
EXTENDS Integers, Sequences, FiniteSets, TLC

\* ------------------------------------------------------------------ bounds
\* Longest list of drafts the QuickBooks parser returns in the model.
MaxQB == 2
\* Longest list of drafts the Rootfi parser returns in the model.
MaxRootfi == 1

\* ------------------------------------------------------------------ values
\* A JSON value carries its type as the name of its one field.
Num(k) == [num |-> k]
Str(x) == [str |-> x]
\* A JSON object or array (a Python dict or list).
Obj == [obj |-> TRUE]
\* JSON null (Python None).
Null == [null |-> TRUE]
IsNum(v) == "num" \in DOMAIN v
IsStr(v) == "str" \in DOMAIN v
IsObj(v) == "obj" \in DOMAIN v
\* The float NaN (json.load reads the literal NaN as float('nan')).
NaN == [nan |-> TRUE]
IsNaN(v) == "nan" \in DOMAIN v
EmptyDict == [k \in {} |-> 0]

Get(d, k, default) == IF k \in DOMAIN d THEN d[k] ELSE default

\* All sequences over S of length at most n.
SeqsUpTo(S, n) == UNION {[1..k -> S] : k \in 0..n}

\* ------------------------------------------------------------------- dates
\* The date strings of the model, with the (year, month, day) that
\* datetime.strptime(s, '%Y-%m-%d') reads from them; %m and %d accept one
\* or two digits, so two strings can denote one date.  Other strings raise
\* ValueError.
ParsableDates ==
    [s \in {"2024-01-01", "2024-1-1", "2024-01-31", "2024-02-01", "2024-02-29"} |->
        CASE s = "2024-01-01" -> <<2024, 1, 1>>
          [] s = "2024-1-1"   -> <<2024, 1, 1>>
          [] s = "2024-01-31" -> <<2024, 1, 31>>
          [] s = "2024-02-01" -> <<2024, 2, 1>>
          [] s = "2024-02-29" -> <<2024, 2, 29>>]

\* Outcome of datetime.strptime(v, '%Y-%m-%d'): "ok" with the date, or the
\* exception it raises (TypeError for a value that is not a string).
Strptime(v) ==
    IF ~IsStr(v) THEN [exc |-> "TypeError", date |-> <<0, 0, 0>>]
    ELSE IF v.str \in DOMAIN ParsableDates
         THEN [exc |-> "ok", date |-> ParsableDates[v.str]]
         ELSE [exc |-> "ValueError", date |-> <<0, 0, 0>>]

\* a < b on dates.
DateLess(a, b) ==
    \/ a[1] < b[1]
    \/ a[1] = b[1] /\ a[2] < b[2]
    \/ a[1] = b[1] /\ a[2] = b[2] /\ a[3] < b[3]

\* a > b on dates.
DateGreater(a, b) == DateLess(b, a)

\* a >= b on dates.
DateGeq(a, b) == ~DateLess(a, b)

\* --------------------------------------------------------------- validator
\* Strings that float() accepts.
NumericStrings == {"1200.00"}

\* Outcome of float(v): "ok" or the exception raised.
FloatOf(v) ==
    CASE IsNum(v) -> "ok"
      [] IsNaN(v) -> "ok"
      [] IsStr(v) -> IF v.str \in NumericStrings THEN "ok" ELSE "ValueError"
      [] OTHER       -> "TypeError"

RequiredFields == <<"period_start", "period_end", "source">>
NumericFields == <<"revenue", "cost_of_goods_sold", "gross_profit",
                   "operating_expenses", "net_profit">>
Sources == {"quickbooks", "rootfi"}

\* FinancialDataValidator.validate_period_data: "ok" (returns True) or the
\* type of the exception that leaves the function.
validate_period_data(data) ==
    IF \E i \in 1..Len(RequiredFields) : RequiredFields[i] \notin DOMAIN data
    THEN "DataValidationError"
    ELSE LET start == Strptime(data["period_start"])
             end == Strptime(data["period_end"])
         IN  IF start.exc = "TypeError" THEN "TypeError"
             ELSE IF start.exc = "ValueError" THEN "DataValidationError"
             ELSE IF end.exc = "TypeError" THEN "TypeError"
             ELSE IF end.exc = "ValueError" THEN "DataValidationError"
             ELSE IF DateGeq(start.date, end.date) THEN "DataValidationError"
             ELSE IF data["source"] \notin Sources THEN "DataValidationError"
             ELSE IF \E i \in 1..Len(NumericFields) :
                        /\ NumericFields[i] \in DOMAIN data
                        /\ FloatOf(data[NumericFields[i]]) # "ok"
                  THEN "DataValidationError"
                  ELSE "ok"

\* The raise statement that ends validate_period_data on data, as
\* [exc, check, msg]: check is the block of the function the exception
\* comes from ("required", "dates", "source", "numeric"), msg the one reason
\* of the message; exc is "ok" when the function returns True.
Valid_ok == [exc |-> "ok", check |-> "none", msg |-> <<>>]
Valid_raise(exc, check, msg) == [exc |-> exc, check |-> check, msg |-> msg]

\* The first element of sequence fields that satisfies Bad (there is one).
FirstField(fields, Bad(_)) ==
    fields[CHOOSE i \in 1..Len(fields) :
                /\ Bad(fields[i])
                /\ \A j \in 1..(i - 1) : ~Bad(fields[j])]

\* A validator that checks the source before the dates.
validate_source_first(data) ==
    LET Missing(f) == f \notin DOMAIN data
        NotFloat(f) == f \in DOMAIN data /\ FloatOf(data[f]) # "ok"
    IN  IF \E i \in 1..Len(RequiredFields) : Missing(RequiredFields[i])
        THEN Valid_raise("DataValidationError", "required",
                         <<"Missing required field: ", FirstField(RequiredFields, Missing)>>)
        ELSE IF data["source"] \notin Sources
        THEN Valid_raise("DataValidationError", "source", <<"Invalid source: ", data["source"]>>)
        ELSE LET start == Strptime(data["period_start"])
                 end == Strptime(data["period_end"])
             IN  IF start.exc = "TypeError"
                 THEN Valid_raise("TypeError", "dates", <<"strptime() argument 1 must be str">>)
                 ELSE IF start.exc = "ValueError"
                 THEN Valid_raise("DataValidationError", "dates", <<"Invalid date format: ", "period_start">>)
                 ELSE IF end.exc = "TypeError"
                 THEN Valid_raise("TypeError", "dates", <<"strptime() argument 1 must be str">>)
                 ELSE IF end.exc = "ValueError"
                 THEN Valid_raise("DataValidationError", "dates", <<"Invalid date format: ", "period_end">>)
                 ELSE IF DateGeq(start.date, end.date)
                 THEN Valid_raise("DataValidationError", "dates",
                                  <<"period_start must be before period_end">>)
                 ELSE IF \E i \in 1..Len(NumericFields) : NotFloat(NumericFields[i])
                 THEN Valid_raise("DataValidationError", "numeric",
                                  <<"Invalid numeric value for ", FirstField(NumericFields, NotFloat)>>)
                 ELSE Valid_ok

\* FinancialDataValidator.validate_period_data with the raise statement it
\* ends in: the required fields in their order, strptime of period_start,
\* strptime of period_end, start_date >= end_date, the source, the numeric
\* fields in their order.  A ValueError of strptime is caught and raised
\* again as DataValidationError; a TypeError of strptime is not caught.
validate_period_data_raises(data) ==
    LET Missing(f) == f \notin DOMAIN data
        NotFloat(f) == f \in DOMAIN data /\ FloatOf(data[f]) # "ok"
    IN  IF \E i \in 1..Len(RequiredFields) : Missing(RequiredFields[i])
        THEN Valid_raise("DataValidationError", "required",
                         <<"Missing required field: ", FirstField(RequiredFields, Missing)>>)
        ELSE LET start == Strptime(data["period_start"])
                 end == Strptime(data["period_end"])
             IN  IF start.exc = "TypeError"
                 THEN Valid_raise("TypeError", "dates", <<"strptime() argument 1 must be str">>)
                 ELSE IF start.exc = "ValueError"
                 THEN Valid_raise("DataValidationError", "dates", <<"Invalid date format: ", "period_start">>)
                 ELSE IF end.exc = "TypeError"
                 THEN Valid_raise("TypeError", "dates", <<"strptime() argument 1 must be str">>)
                 ELSE IF end.exc = "ValueError"
                 THEN Valid_raise("DataValidationError", "dates", <<"Invalid date format: ", "period_end">>)
                 ELSE IF DateGeq(start.date, end.date)
                 THEN Valid_raise("DataValidationError", "dates",
                                  <<"period_start must be before period_end">>)
                 ELSE IF data["source"] \notin Sources
                 THEN Valid_raise("DataValidationError", "source", <<"Invalid source: ", data["source"]>>)
                 ELSE IF \E i \in 1..Len(NumericFields) : NotFloat(NumericFields[i])
                 THEN Valid_raise("DataValidationError", "numeric",
                                  <<"Invalid numeric value for ", FirstField(NumericFields, NotFloat)>>)
                 ELSE Valid_ok

\* ------------------------------------------------------------------ drafts
\* The dict QuickBooksParser._extract_monthly_data appends for one month
\* column with StartDate ps and EndDate pe, for a report whose Income,
\* GrossProfit and NetIncome summary cells of that column are rev and whose
\* Income row has one child account "Sales" worth rev.
QBDraft(ps, pe, rev) ==
    [period_start       |-> Str(ps),
     period_end         |-> Str(pe),
     source             |-> "quickbooks",
     revenue            |-> Num(rev),
     cost_of_goods_sold |-> Num(0),
     gross_profit       |-> Num(rev),
     operating_expenses |-> Num(0),
     net_profit         |-> Num(rev),
     revenue_breakdown  |-> [Sales |-> rev],
     expense_breakdown  |-> EmptyDict]

\* The dict RootfiParser._transform_data appends for one record with one
\* revenue line item "Sales" worth rev, gross_profit and net_profit rev, and
\* the operating_profit value op (taken from the record as it is).
RootfiDraft(ps, pe, rev, op) ==
    [period_start           |-> Str(ps),
     period_end             |-> Str(pe),
     source                 |-> "rootfi",
     revenue                |-> Num(rev),
     cost_of_goods_sold     |-> Num(0),
     gross_profit           |-> Num(rev),
     operating_expenses     |-> Num(0),
     operating_profit       |-> op,
     non_operating_revenue  |-> Num(0),
     non_operating_expenses |-> Num(0),
     net_profit             |-> Num(rev),
     revenue_breakdown      |-> [Sales |-> rev],
     expense_breakdown      |-> EmptyDict]

\* ------------------------------------------------------------------- files
\* Month columns of the tabular report: a month, the same month written
\* without zero padding and with another amount, and an empty period
\* (StartDate = EndDate).
QBColumns ==
    {[StartDate |-> "2024-01-01", EndDate |-> "2024-01-31", value |-> 100],
     [StartDate |-> "2024-1-1",   EndDate |-> "2024-01-31", value |-> 250],
     [StartDate |-> "2024-01-31", EndDate |-> "2024-01-31", value |-> 100]}

\* Records of the line-item document: a month with a number and with a JSON
\* object as operating_profit, and a record whose period_start is no date.
RootfiRecords ==
    {[period_start |-> "2024-01-01", period_end |-> "2024-01-31", revenue |-> 100,
      operating_profit |-> Num(10)],
     [period_start |-> "2024-01-01", period_end |-> "2024-01-31", revenue |-> 100,
      operating_profit |-> Obj],
     [period_start |-> "Jan 2024", period_end |-> "2024-01-31", revenue |-> 100,
      operating_profit |-> Num(10)]}

\* A source file: missing, not JSON, or a document, given by its month
\* columns (QuickBooks) or its records (Rootfi).
FileOf(status, content) == [status |-> status, content |-> content]
QBFiles ==
    {FileOf("missing", <<>>), FileOf("badjson", <<>>)}
        \cup {FileOf("ok", cols) : cols \in SeqsUpTo(QBColumns, MaxQB)}
RootfiFiles ==
    {FileOf("missing", <<>>), FileOf("badjson", <<>>)}
        \cup {FileOf("ok", recs) : recs \in SeqsUpTo(RootfiRecords, MaxRootfi)}

\* QuickBooksParser._extract_monthly_data: one draft per month column.
extract_monthly_data(columns) ==
    [k \in 1..Len(columns) |->
        QBDraft(columns[k].StartDate, columns[k].EndDate, columns[k].value)]

\* RootfiParser._transform_data: one draft per record.
transform_data(records) ==
    [k \in 1..Len(records) |->
        RootfiDraft(records[k].period_start, records[k].period_end,
                    records[k].revenue, records[k].operating_profit)]

QUICKBOOKS_DATA_FILE == "data_set_1.json"
ROOTFI_DATA_FILE == "data_set_2.json"

Raise(type, msg) == [exc |-> type, msg |-> msg, data |-> <<>>]
Return(data) == [exc |-> "ok", msg |-> <<>>, data |-> data]

\* open() and json.load() on the file: the exception raised, or "ok".
ReadJson(file) ==
    CASE file.status = "missing" -> "FileNotFoundError"
      [] file.status = "badjson" -> "JSONDecodeError"
      [] OTHER                   -> "ok"

\* A record of the line-item document has both dates.
HasDates(record) == "period_start" \in DOMAIN record /\ "period_end" \in DOMAIN record

\* A parse_file that leaves out the records without a date.
parse_file_skipping(file, label, path) ==
    CASE ReadJson(file) = "FileNotFoundError" ->
            Raise("DataSourceError", <<label, " data file not found: ", path>>)
      [] ReadJson(file) = "JSONDecodeError" ->
            Raise("DataSourceError", <<"Invalid JSON in ", label, " file">>)
      [] label = "QuickBooks" -> Return(extract_monthly_data(file.content))
      [] OTHER -> Return(transform_data(SelectSeq(file.content, HasDates)))

\* QuickBooksParser.parse_file and RootfiParser.parse_file (label is
\* "QuickBooks" or "Rootfi"): the drafts, or the DataSourceError raised.
\* record['period_start'] and record['period_end'] raise KeyError, which
\* ends _transform_data and is raised again as DataSourceError.
parse_file(file, label, path) ==
    CASE ReadJson(file) = "FileNotFoundError" ->
            Raise("DataSourceError", <<label, " data file not found: ", path>>)
      [] ReadJson(file) = "JSONDecodeError" ->
            Raise("DataSourceError", <<"Invalid JSON in ", label, " file">>)
      [] label = "QuickBooks" -> Return(extract_monthly_data(file.content))
      [] \E k \in 1..Len(file.content) : ~HasDates(file.content[k]) ->
            Raise("DataSourceError", <<"Failed to parse ", label, " data: ", "KeyError">>)
      [] OTHER -> Return(transform_data(file.content))

\* Except clauses that drop the message of the original exception.
load_data_except_bare(e) ==
    IF e.exc = "FileNotFoundError"
    THEN Raise("DataSourceError", <<"Data file not found">>)
    ELSE Raise("DataProcessingError", <<"Failed to load data">>)

\* The except clauses of DataService.load_data_from_sources: the exception
\* that leaves the call when e is raised inside its try block.
\* DataSourceError derives from Exception, not from FileNotFoundError.
load_data_except(e) ==
    IF e.exc = "FileNotFoundError"
    THEN Raise("DataSourceError", <<"Data file not found: ">> \o e.msg)
    ELSE Raise("DataProcessingError", <<"Failed to load data: ">> \o e.msg)

\* The except clauses of the /data/load endpoint: the HTTP status answered.
load_data_status(status) ==
    CASE status = "ok"                  -> 200
      [] status = "DataSourceError"     -> 404
      [] status = "DataProcessingError" -> 500
      [] OTHER                          -> 500

\* ------------------------------------------------------------------- store
IdentityFields == {"period_start", "period_end", "source"}
FloatColumns == {"revenue", "cost_of_goods_sold", "gross_profit", "operating_expenses",
                 "operating_profit", "non_operating_revenue", "non_operating_expenses",
                 "net_profit"}

\* The columns the setattr loop can assign from the keys of a draft.
UpdatableColumns == FloatColumns \cup {"revenue_breakdown", "expense_breakdown"}

\* The FinancialPeriod built for a draft that has no stored record.
NewPeriod(d) ==
    [period_start           |-> Strptime(d["period_start"]).date,
     period_end             |-> Strptime(d["period_end"]).date,
     source                 |-> d["source"],
     revenue                |-> Get(d, "revenue", Num(0)),
     cost_of_goods_sold     |-> Get(d, "cost_of_goods_sold", Num(0)),
     gross_profit           |-> Get(d, "gross_profit", Num(0)),
     operating_expenses     |-> Get(d, "operating_expenses", Num(0)),
     operating_profit       |-> Get(d, "operating_profit", Num(0)),
     non_operating_revenue  |-> Get(d, "non_operating_revenue", Num(0)),
     non_operating_expenses |-> Get(d, "non_operating_expenses", Num(0)),
     net_profit             |-> Get(d, "net_profit", Num(0)),
     revenue_breakdown      |-> Get(d, "revenue_breakdown", Null),
     expense_breakdown      |-> Get(d, "expense_breakdown", Null),
     currency               |-> "USD",
     raw_data               |-> d]

\* The setattr loop on an existing record: every key of the draft that is
\* not an identity field is assigned.
UpdatePeriod(row, d) ==
    [k \in DOMAIN row |->
        IF k \in DOMAIN d /\ k \notin IdentityFields THEN d[k] ELSE row[k]]

\* The identity triple of a stored record.
Identity(row) == <<row.period_start, row.period_end, row.source>>
\* The identity triple the lookup computes from a (valid) draft.
DraftIdentity(d) ==
    <<Strptime(d["period_start"]).date, Strptime(d["period_end"]).date, d["source"]>>

\* A lookup whose period_end filter compares with the start date.
MatchingStartTwice(st, d) ==
    {i \in 1..Len(st) :
        Identity(st[i]) = <<DraftIdentity(d)[1], DraftIdentity(d)[1], DraftIdentity(d)[3]>>}

\* Ids of the rows the lookup query selects for draft d in table st.
Matching(st, d) == {i \in 1..Len(st) : Identity(st[i]) = DraftIdentity(d)}

\* A value sqlite3 cannot bind as a parameter of a Float column.
Unbindable(row) == \E k \in FloatColumns : IsObj(row[k])
BindErrorMsg == <<"Error binding parameter: type is not supported">>

\* ----------------------------------------------------------------- session
\* A session: the objects added and not yet flushed, the objects loaded by
\* a query (the row as it was loaded, and the row with the pending changes),
\* and the count of _load_periods.
EmptySession == [new |-> <<>>, loaded |-> {}, count |-> 0]

\* The state of the object with id i as the session sees it: the object it
\* already holds, or the row of table st.
ObjectOf(sess, st, i) ==
    IF \E o \in sess.loaded : o.id = i
    THEN (CHOOSE o \in sess.loaded : o.id = i).row
    ELSE st[i]

\* The row with id i as the session loaded it.
LoadedOf(sess, st, i) ==
    IF \E o \in sess.loaded : o.id = i
    THEN (CHOOSE o \in sess.loaded : o.id = i).was
    ELSE st[i]

\* Query.first() on the rows with the ids in ids: SQLite scans the table or
\* one of its indexes, where rows of equal key come in rowid order, so the
\* row returned among rows of one identity is the one of lowest id.
first(ids) == CHOOSE i \in ids : \A j \in ids : i <= j

\* A loop body without the lookup: every valid draft is added and counted.
LoopBodyInserting(sess, st, d) ==
    IF validate_period_data(d) # "ok" THEN sess
    ELSE [sess EXCEPT !.new = Append(sess.new, NewPeriod(d)),
                      !.count = sess.count + 1]

\* The body of the for loop of _load_periods for draft d, in session sess on
\* table st.  A draft the validator rejects is skipped.  The session does
\* not autoflush, so the lookup reads the rows of st only: a draft whose
\* identity it finds updates the object of that row, another one adds a new
\* object and is counted.
LoopBody(sess, st, d) ==
    IF validate_period_data(d) # "ok" THEN sess
    ELSE IF Matching(st, d) # {}
         THEN LET i == first(Matching(st, d))
              IN  [sess EXCEPT !.loaded =
                      {o \in sess.loaded : o.id # i}
                         \cup {[id |-> i, row |-> UpdatePeriod(ObjectOf(sess, st, i), d),
                                  was |-> LoadedOf(sess, st, i)]}]
         ELSE [sess EXCEPT !.new = Append(sess.new, NewPeriod(d)),
                           !.count = sess.count + 1]

\* A loop that ends at the first draft the validator rejects.
ForLoopBreaking(st, data) ==
    LET stop == IF \E k \in 1..Len(data) : validate_period_data(data[k]) # "ok"
                THEN (CHOOSE k \in 1..Len(data) :
                        /\ validate_period_data(data[k]) # "ok"
                        /\ \A j \in 1..(k - 1) : validate_period_data(data[j]) = "ok") - 1
                ELSE Len(data)
        F[k \in 0..stop] ==
            IF k = 0 THEN EmptySession ELSE LoopBody(F[k - 1], st, data[k])
    IN  F[stop]

\* The for loop of _load_periods over the drafts of data, from a fresh
\* session on table st: the session when the loop ends.
ForLoop(st, data) ==
    LET F[k \in 0..Len(data)] ==
            IF k = 0 THEN EmptySession ELSE LoopBody(F[k - 1], st, data[k])
    IN  F[Len(data)]

\* The rows of st whose id is not in ids.
Without(st, ids) ==
    LET F[k \in 0..Len(st)] ==
            IF k = 0 THEN <<>>
            ELSE IF k \in ids THEN F[k - 1] ELSE Append(F[k - 1], st[k])
    IN  F[Len(st)]

\* A flush that deletes the rows of the loaded objects instead of updating
\* them.
FlushedDeleting(st, sess) == Without(st, {o.id : o \in sess.loaded}) \o sess.new

\* Two values of a column are equal.
SameValue(a, b) == DOMAIN a = DOMAIN b /\ \A k \in DOMAIN a : a[k] = b[k]

\* The UPDATE the unit of work emits for a loaded object: it sets the
\* columns whose value differs from the loaded one, in the row cur the table
\* holds now.
Updated(cur, o) ==
    [k \in DOMAIN cur |->
        IF k \in UpdatableColumns /\ ~SameValue(o.row[k], o.was[k])
        THEN o.row[k] ELSE cur[k]]

\* The table after the flush of a session: the changed columns of loaded
\* objects are written to their rows, new objects get the next ids.
Flushed(st, sess) ==
    [i \in 1..Len(st) |->
        IF \E o \in sess.loaded : o.id = i
        THEN Updated(st[i], CHOOSE o \in sess.loaded : o.id = i)
        ELSE st[i]] \o sess.new

\* The flush fails when a value cannot be bound.
FlushFails(sess) ==
    \/ \E o \in sess.loaded : Unbindable(o.row)
    \/ \E k \in 1..Len(sess.new) : Unbindable(sess.new[k])

\* ------------------------------------------------------------------- state
VARIABLES
    files,         \* the two source files: [qb, rootfi]
    store,         \* committed rows of financial_periods; the id is the index
    lastRun,       \* outcome of the last finished load of the files as they are now
    pc,            \* per caller: "idle", "qb", "rootfi" (before that batch), "done"
    qb_data,       \* per caller: drafts returned by the QuickBooks parser
    rootfi_data,   \* per caller: drafts returned by the Rootfi parser
    qb_count,      \* per caller: value returned for the QuickBooks batch
    result,        \* per caller: what load_data_from_sources returned or raised
    before,        \* per caller: the store when the call began
    prior,         \* per caller: lastRun when the call began
    session,       \* per caller: the session of a _load_periods call before its commit
    arg,           \* the argument of a function called on its own
    ret            \* what that function returned or raised

vars == <<files, store, lastRun, pc, qb_data, rootfi_data, qb_count, result, before, prior,
          session, arg, ret>>

\* What a load by one caller at a time does not use.
aux == <<session, arg, ret>>

locals == <<qb_data, rootfi_data, qb_count, result, before, prior>>

NoResult ==
    [status |-> "none", quickbooks_records |-> 0, rootfi_records |-> 0,
     total_records |-> 0, detail |-> <<>>]
ReturnedQBTwice(qb, rootfi) ==
    [status |-> "ok", quickbooks_records |-> qb, rootfi_records |-> rootfi,
     total_records |-> qb + qb, detail |-> <<>>]
Returned(qb, rootfi) ==
    [status |-> "ok", quickbooks_records |-> qb, rootfi_records |-> rootfi,
     total_records |-> qb + rootfi, detail |-> <<>>]
Raised(e) ==
    [status |-> e.exc, quickbooks_records |-> 0, rootfi_records |-> 0,
     total_records |-> 0, detail |-> e.msg]

\* One caller on an empty table.
Init ==
    /\ files \in [qb : QBFiles, rootfi : RootfiFiles]
    /\ store = <<>>
    /\ lastRun = "none"
    /\ pc = [c \in {1} |-> "idle"]
    /\ qb_data = [c \in {1} |-> <<>>]
    /\ rootfi_data = [c \in {1} |-> <<>>]
    /\ qb_count = [c \in {1} |-> 0]
    /\ result = [c \in {1} |-> NoResult]
    /\ before = [c \in {1} |-> <<>>]
    /\ prior = [c \in {1} |-> "none"]
    /\ session = [c \in {1} |-> EmptySession]
    /\ arg = <<>>
    /\ ret = <<>>

\* load_data_from_sources up to the first _load_periods call: both files
\* are parsed; an exception of a parser goes through the except clauses.
Start(c) ==
    /\ pc[c] = "idle"
    /\ before' = [before EXCEPT ![c] = store]
    /\ prior' = [prior EXCEPT ![c] = lastRun]
    /\ LET q == parse_file(files.qb, "QuickBooks", QUICKBOOKS_DATA_FILE)
           r == parse_file(files.rootfi, "Rootfi", ROOTFI_DATA_FILE)
       IN  IF q.exc # "ok" \/ r.exc # "ok"
           THEN /\ result' = [result EXCEPT ![c] =
                                Raised(load_data_except(IF q.exc # "ok" THEN q ELSE r))]
                /\ pc' = [pc EXCEPT ![c] = "done"]
                /\ UNCHANGED <<qb_data, rootfi_data>>
           ELSE /\ qb_data' = [qb_data EXCEPT ![c] = q.data]
                /\ rootfi_data' = [rootfi_data EXCEPT ![c] = r.data]
                /\ pc' = [pc EXCEPT ![c] = "qb"]
                /\ UNCHANGED result
    /\ UNCHANGED <<files, store, lastRun, qb_count>>
    /\ UNCHANGED aux

\* The batch _load_periods is called with.
Batch(c) == IF pc[c] = "qb" THEN qb_data[c] ELSE rootfi_data[c]

\* One call of _load_periods and what follows it in load_data_from_sources:
\* the for loop over the batch, then self.db.commit(); a commit that fails
\* leaves the table as it was and its exception goes through the except
\* clauses; after the QuickBooks batch comes the Rootfi batch, after the
\* Rootfi batch the return.
LoadPeriods(c) ==
    /\ pc[c] \in {"qb", "rootfi"}
    /\ LET sess == ForLoop(store, Batch(c))
       IN  IF FlushFails(sess)
           THEN /\ result' = [result EXCEPT ![c] =
                                Raised(load_data_except(Raise("InterfaceError", BindErrorMsg)))]
                /\ pc' = [pc EXCEPT ![c] = "done"]
                /\ UNCHANGED <<store, qb_count>>
           ELSE /\ store' = Flushed(store, sess)
                /\ IF pc[c] = "qb"
                   THEN /\ qb_count' = [qb_count EXCEPT ![c] = sess.count]
                        /\ pc' = [pc EXCEPT ![c] = "rootfi"]
                        /\ UNCHANGED result
                   ELSE /\ result' = [result EXCEPT ![c] =
                                        Returned(qb_count[c], sess.count)]
                        /\ pc' = [pc EXCEPT ![c] = "done"]
                        /\ UNCHANGED qb_count
    /\ UNCHANGED <<files, lastRun, qb_data, rootfi_data, before, prior>>
    /\ UNCHANGED aux

\* The caller is done with the call: the session is closed (get_db,
\* load_data.py) and the locals are gone.
Close(c) ==
    /\ pc[c] = "done"
    /\ pc' = [pc EXCEPT ![c] = "idle"]
    /\ lastRun' = IF result[c].status = "ok" THEN "ok" ELSE "failed"
    /\ qb_data' = [qb_data EXCEPT ![c] = <<>>]
    /\ rootfi_data' = [rootfi_data EXCEPT ![c] = <<>>]
    /\ qb_count' = [qb_count EXCEPT ![c] = 0]
    /\ result' = [result EXCEPT ![c] = NoResult]
    /\ before' = [before EXCEPT ![c] = <<>>]
    /\ prior' = [prior EXCEPT ![c] = "none"]
    /\ UNCHANGED <<files, store>>
    /\ UNCHANGED aux

\* File new is file old after one edit: a column or record is appended at
\* its end or removed from its end, or an empty document is replaced by a
\* missing or malformed file, or such a file by another one without columns
\* or records.
Edited(old, new) ==
    \/ /\ old.status = "ok" /\ new.status = "ok"
       /\ \/ /\ Len(new.content) = Len(old.content) + 1
             /\ SubSeq(new.content, 1, Len(old.content)) = old.content
          \/ /\ Len(old.content) = Len(new.content) + 1
             /\ SubSeq(old.content, 1, Len(new.content)) = new.content
    \/ /\ old.status # new.status
       /\ old.content = <<>> /\ new.content = <<>>

\* One of the files is edited between two loads.
ChangeSources ==
    /\ \A c \in DOMAIN pc : pc[c] = "idle"
    /\ \/ \E f \in QBFiles :
            Edited(files.qb, f) /\ files' = [files EXCEPT !.qb = f]
       \/ \E f \in RootfiFiles :
            Edited(files.rootfi, f) /\ files' = [files EXCEPT !.rootfi = f]
    /\ lastRun' = "none"
    /\ UNCHANGED <<store, pc>>
    /\ UNCHANGED locals
    /\ UNCHANGED aux

Next ==
    \/ \E c \in DOMAIN pc : Start(c)
    \/ \E c \in DOMAIN pc : LoadPeriods(c)
    \/ \E c \in DOMAIN pc : Close(c)
    \/ ChangeSources

Spec == Init /\ [][Next]_vars

\* ------------------------------------------------------------- properties
Callers == DOMAIN pc
Valid(d) == validate_period_data(d) = "ok"
ParsedOk == files.qb.status = "ok" /\ files.rootfi.status = "ok"

\* Draft k of batch data is valid and no later valid draft of the batch has
\* its identity.
LastOfIdentity(data, k) ==
    /\ Valid(data[k])
    /\ ~\E j \in (k + 1)..Len(data) :
            Valid(data[j]) /\ DraftIdentity(data[j]) = DraftIdentity(data[k])

\* Draft k of batch data is valid and no other valid draft of the batch has
\* its identity.
OnlyOfIdentity(data, k) ==
    /\ Valid(data[k])
    /\ ~\E j \in 1..Len(data) :
            j # k /\ Valid(data[j]) /\ DraftIdentity(data[j]) = DraftIdentity(data[k])

\* Table st has a row of the identity of draft d that carries the values of
\* every key of d but the identity fields.
Upserted(st, d) ==
    \E i \in Matching(st, d) :
        \A f \in DOMAIN d \ IdentityFields : st[i][f] = d[f]

\* C1: a load that follows a finished load of the same, unchanged files
\* leaves the store as that first load left it.
C1_Idempotent ==
    \A c \in Callers : pc[c] = "done" /\ prior[c] # "none" => store = before[c]

\* C2: a load that follows a successful load of the same, unchanged files
\* succeeds and returns 0 for quickbooks, rootfi and the total.
C2_SecondCallZero ==
    \A c \in Callers :
        pc[c] = "done" /\ prior[c] = "ok" =>
            /\ result[c].status = "ok"
            /\ result[c].quickbooks_records = 0
            /\ result[c].rootfi_records = 0
            /\ result[c].total_records = 0

\* C2 witness: such a second load has finished on a store that holds records
\* of both sources and a batch that holds two drafts.
C2_Witness ==
    \E c \in Callers :
        /\ pc[c] = "done" /\ prior[c] = "ok"
        /\ Len(qb_data[c]) > 1
        /\ \E i, j \in 1..Len(store) :
                store[i].source = "quickbooks" /\ store[j].source = "rootfi"

\* C3: no two stored records have the same (period_start, period_end,
\* source).
C3_IdentityUnique ==
    \A i, j \in 1..Len(store) : i # j => Identity(store[i]) # Identity(store[j])

\* A record the call changed carries the values of a valid draft of one of
\* the two batches of the call.
UpdatedFromValid(c) ==
    \A i \in 1..Len(before[c]) :
        store[i] # before[c][i] =>
            \E d \in {qb_data[c][k] : k \in 1..Len(qb_data[c])}
                        \cup {rootfi_data[c][k] : k \in 1..Len(rootfi_data[c])} :
                /\ Valid(d)
                /\ DraftIdentity(d) = Identity(store[i])
                /\ \A f \in DOMAIN d \ IdentityFields : store[i][f] = d[f]

\* C4: every stored record has period_start < period_end and source in
\* {quickbooks, rootfi} and was inserted from a draft the validator accepts,
\* and a record is changed only with the values of a draft the validator
\* accepts: a draft that fails validation is neither inserted nor used for
\* an update.
C4_StoredValid ==
    /\ \A i \in 1..Len(store) :
            /\ DateLess(store[i].period_start, store[i].period_end)
            /\ store[i].source \in Sources
            /\ Valid(store[i].raw_data)
    /\ \A c \in Callers : pc[c] \in {"rootfi", "done"} => UpdatedFromValid(c)

\* C4 witness: a load whose QuickBooks batch holds a draft with start = end
\* and whose Rootfi batch holds a draft with a text that is no date has
\* finished and changed a stored record.
C4_Witness ==
    \E c \in Callers :
        /\ pc[c] = "done" /\ result[c].status = "ok"
        /\ \E k \in 1..Len(qb_data[c]) :
                /\ Strptime(qb_data[c][k]["period_start"]).exc = "ok"
                /\ ~Valid(qb_data[c][k])
        /\ \E k \in 1..Len(rootfi_data[c]) :
                Strptime(rootfi_data[c][k]["period_start"]).exc = "ValueError"
        /\ \E i \in 1..Len(before[c]) : store[i] # before[c][i]

\* Rows of source s that the store holds and that before did not hold.
Inserted(c, s) == {i \in (Len(before[c]) + 1)..Len(store) : store[i].source = s}

\* C5: a successful load returns, for each source, the number of records of
\* that source that are in the store and were not before the call, and as
\* total the sum of the two.
C5_InsertCount ==
    \A c \in Callers :
        pc[c] = "done" /\ result[c].status = "ok" =>
            /\ result[c].quickbooks_records = Cardinality(Inserted(c, "quickbooks"))
            /\ result[c].rootfi_records = Cardinality(Inserted(c, "rootfi"))
            /\ result[c].total_records =
                    result[c].quickbooks_records + result[c].rootfi_records

\* C5 witness: a successful load whose QuickBooks batch held a rejected
\* draft and a draft that updated a stored record, and whose Rootfi batch
\* inserted a record.
C5_Witness ==
    \E c \in Callers :
        /\ pc[c] = "done" /\ result[c].status = "ok"
        /\ \E k \in 1..Len(qb_data[c]) : ~Valid(qb_data[c][k])
        /\ \E k \in 1..Len(qb_data[c]) :
                Valid(qb_data[c][k]) /\ Matching(before[c], qb_data[c][k]) # {}
        /\ result[c].quickbooks_records = 0
        /\ result[c].rootfi_records = 1

\* C6: after a successful load, for every valid draft whose identity was
\* stored before the call (and that no other draft of its batch shares), a
\* stored record of that identity has all eight metrics, both breakdowns
\* and raw_data equal to what the draft determines.
C6_FullReplace ==
    \A c \in Callers :
        pc[c] = "done" /\ result[c].status = "ok" =>
            \A data \in {qb_data[c], rootfi_data[c]} : \A k \in 1..Len(data) :
                OnlyOfIdentity(data, k) /\ Matching(before[c], data[k]) # {} =>
                    \E i \in Matching(store, data[k]) :
                        \A f \in DOMAIN store[i] \ IdentityFields :
                            store[i][f] = NewPeriod(data[k])[f]

\* C7: no step changes the identity triple of a stored record or removes a
\* record.
C7_IdentityStable ==
    [][/\ Len(store') >= Len(store)
       /\ \A i \in 1..Len(store) : Identity(store'[i]) = Identity(store[i])]_vars

\* C7 witness: a load has finished that changed a record stored before it
\* while another record was stored too.
C7_Witness ==
    \E c \in Callers :
        /\ pc[c] = "done"
        /\ Len(before[c]) > 1
        /\ \E i \in 1..Len(before[c]) : store[i] # before[c][i]

\* C8: at the end of a load whose files were parsed, every valid draft of
\* the QuickBooks batch has been upserted whatever rejected drafts are
\* around it, the call fails only if a valid Rootfi draft cannot be stored,
\* and if it does not fail every valid Rootfi draft has been upserted too.
C8_SkipAndContinue ==
    \A c \in Callers :
        pc[c] = "done" /\ ParsedOk =>
            /\ \A k \in 1..Len(qb_data[c]) :
                    LastOfIdentity(qb_data[c], k) => Upserted(store, qb_data[c][k])
            /\ result[c].status # "ok" =>
                    \E k \in 1..Len(rootfi_data[c]) :
                        Valid(rootfi_data[c][k]) /\ Unbindable(NewPeriod(rootfi_data[c][k]))
            /\ result[c].status = "ok" =>
                    \A k \in 1..Len(rootfi_data[c]) :
                        LastOfIdentity(rootfi_data[c], k) =>
                            Upserted(store, rootfi_data[c][k])

\* C8 witness: a successful load whose QuickBooks batch began with a
\* rejected draft followed by a valid draft that was not stored before, and
\* whose Rootfi draft was valid.
C8_Witness ==
    \E c \in Callers :
        /\ pc[c] = "done" /\ result[c].status = "ok"
        /\ Len(qb_data[c]) > 1
        /\ ~Valid(qb_data[c][1])
        /\ Valid(qb_data[c][2])
        /\ Matching(before[c], qb_data[c][2]) = {}
        /\ \E k \in 1..Len(rootfi_data[c]) : Valid(rootfi_data[c][k])

\* C9: a load with a missing or malformed source file ends with
\* DataSourceError, which the endpoint answers with 404, and leaves the
\* store as it was.
C9_SourceError ==
    \A c \in Callers :
        pc[c] = "done" /\ ~ParsedOk =>
            /\ result[c].status = "DataSourceError"
            /\ load_data_status(result[c].status) = 404
            /\ store = before[c]

\* C10: a load that fails in the Rootfi batch ends with DataProcessingError
\* that wraps the original message, and the QuickBooks drafts of the call
\* stay upserted: their inserts are in the store, their updates are too.
C10_NoRollback ==
    \A c \in Callers :
        pc[c] = "done" /\ ParsedOk /\ result[c].status # "ok" =>
            /\ result[c].status = "DataProcessingError"
            /\ result[c].detail = <<"Failed to load data: ">> \o BindErrorMsg
            /\ load_data_status(result[c].status) = 500
            /\ \A k \in 1..Len(qb_data[c]) :
                    LastOfIdentity(qb_data[c], k) => Upserted(store, qb_data[c][k])
            /\ Len(store) - Len(before[c]) =
                    Cardinality({k \in 1..Len(qb_data[c]) :
                        Valid(qb_data[c][k]) /\ Matching(before[c], qb_data[c][k]) = {}})

\* C10 witness: a load failed in its Rootfi batch after its QuickBooks batch
\* began with a rejected draft and went on to change a stored record.
C10_Witness ==
    \E c \in Callers :
        /\ pc[c] = "done" /\ ParsedOk /\ result[c].status = "DataProcessingError"
        /\ Len(qb_data[c]) > 1 /\ ~Valid(qb_data[c][1])
        /\ \E i \in 1..Len(before[c]) : store[i] # before[c][i]

\* ------------------------------------------------- the validator on its own
\* The variables of a load while no load runs and nothing is stored.
NoLoad ==
    /\ files = [qb |-> FileOf("ok", <<>>), rootfi |-> FileOf("ok", <<>>)]
    /\ store = <<>>
    /\ lastRun = "none"
    /\ pc = [c \in {1} |-> "idle"]
    /\ qb_data = [c \in {1} |-> <<>>]
    /\ rootfi_data = [c \in {1} |-> <<>>]
    /\ qb_count = [c \in {1} |-> 0]
    /\ result = [c \in {1} |-> NoResult]
    /\ before = [c \in {1} |-> <<>>]
    /\ prior = [c \in {1} |-> "none"]
    /\ session = [c \in {1} |-> EmptySession]

load == <<files, store, lastRun, pc, qb_data, rootfi_data, qb_count, result, before, prior,
          session>>

\* The eight metric fields of a record.
MetricFields == FloatColumns

\* Values of the fields of the records the validator is called with.
StartValues == {Str("2024-01-01"), Str("2024-01-31"), Str("Jan 2024"), Num(20240101), Null}
EndValues == {Str("2024-01-31"), Str("31/01/2024"), Null}
SourceValues == {"quickbooks", "ledger"}
RevenueValues == {Num(100), Str("1200.00"), Str("abc"), Null, NaN}
ProfitValues == {Num(10), Str("abc"), NaN}
\* Key sets of those records: all of the keys, or all but one or two.
ValidatorKeys ==
    LET all == {"period_start", "period_end", "source", "revenue", "operating_profit"}
    IN  {all \ K : K \in {{}, {"period_start"}, {"period_end"}, {"source"},
                          {"period_end", "source"}, {"revenue"},
                          {"revenue", "operating_profit"}}}

\* The records the validator is called with.
ValidatorInputs ==
    {[k \in K |-> r[k]] :
        r \in [period_start : StartValues, period_end : EndValues, source : SourceValues,
               revenue : RevenueValues, operating_profit : ProfitValues],
        K \in ValidatorKeys}

InitValidator ==
    /\ NoLoad
    /\ arg \in ValidatorInputs
    /\ ret = <<>>

\* validator.validate_period_data(arg) is called.
Validate ==
    /\ ret = <<>>
    /\ ret' = <<validate_period_data_raises(arg)>>
    /\ UNCHANGED arg
    /\ UNCHANGED load

NextValidator == Validate

ValidatorSpec == InitValidator /\ [][NextValidator]_vars

\* C11: the validator either returns True or raises DataValidationError,
\* whatever the record and the types of its values; no other exception
\* leaves it.
C11_OutcomeClosed ==
    ret # <<>> => ret[1].exc \in {"ok", "DataValidationError"}

\* The checks of the validator that a record violates, as the contract
\* states them: (a) a required field is absent, (b) a date is not a
\* YYYY-MM-DD text or period_start is not before period_end, (c) the source
\* is not recognized, (d) a metric field that is present is not a number.
Checks == <<"required", "dates", "source", "numeric">>
IsNumber(v) == IsNum(v) \/ (IsStr(v) /\ v.str \in NumericStrings)
Violates(d, check) ==
    CASE check = "required" ->
            \E f \in {"period_start", "period_end", "source"} : f \notin DOMAIN d
      [] check = "dates" ->
            /\ "period_start" \in DOMAIN d /\ "period_end" \in DOMAIN d
            /\ \/ ~IsStr(d["period_start"])
               \/ ~IsStr(d["period_end"])
               \/ d["period_start"].str \notin DOMAIN ParsableDates
               \/ d["period_end"].str \notin DOMAIN ParsableDates
               \/ ~DateLess(ParsableDates[d["period_start"].str],
                            ParsableDates[d["period_end"].str])
      [] check = "source" ->
            "source" \in DOMAIN d /\ d["source"] \notin {"quickbooks", "rootfi"}
      [] OTHER ->
            \E f \in MetricFields \cap DOMAIN d : ~IsNumber(d[f]) /\ ~IsNaN(d[f])

\* The earliest check in the order (a), (b), (c), (d) that d violates.
EarliestViolated(d) ==
    Checks[CHOOSE i \in 1..4 :
                /\ Violates(d, Checks[i])
                /\ \A j \in 1..(i - 1) : ~Violates(d, Checks[j])]

\* C12: the validator applies its checks in the order required fields,
\* dates, source, numeric fields: when it raises, the exception comes from
\* the earliest check the record violates and its message names one reason;
\* it raises whenever a check before the numeric fields is violated, and it
\* agrees with the outcome the load coordinator sees.
C12_CheckOrder ==
    ret # <<>> =>
        /\ ret[1].exc # "ok" =>
                /\ \E i \in 1..4 : Violates(arg, Checks[i])
                /\ ret[1].check = EarliestViolated(arg)
                /\ Len(ret[1].msg) \in {1, 2}
        /\ (\E i \in 1..3 : Violates(arg, Checks[i])) => ret[1].exc # "ok"
        /\ ret[1].exc = validate_period_data(arg)

\* C12 witness: the validator was called with a record that has a date that
\* is no date, an unknown source and a revenue that is no number, and it
\* raised.
C12_Witness ==
    /\ ret # <<>> /\ ret[1].exc = "DataValidationError"
    /\ Violates(arg, "dates") /\ Violates(arg, "source") /\ Violates(arg, "numeric")

\* C13: the validator raises DataValidationError whenever one of the eight
\* metric fields that the record has is not a finite number.
C13_MetricsFinite ==
    ret # <<>> =>
        ((\E f \in MetricFields \cap DOMAIN arg : ~IsNumber(arg[f]))
            => ret[1].exc = "DataValidationError")

\* --------------------------------------------- the QuickBooks parser in full
\* Longest list of month columns of a tabular report in the model.
MaxColumns == 3

\* d with key k set to v (d[k] = v on a Python dict).
Put(d, k, v) == [x \in DOMAIN d \cup {k} |-> IF x = k THEN v ELSE d[x]]

\* The cell texts of the model with the float _parse_value makes of them:
\* commas are removed, an empty text and a text float() rejects give 0.
CellValues ==
    [x \in {"100.00", "250.00", "1,200.00", "50.00", "0.00", "", "n/a"} |->
        CASE x = "100.00"   -> 100
          [] x = "250.00"   -> 250
          [] x = "1,200.00" -> 1200
          [] x = "50.00"    -> 50
          [] OTHER          -> 0]
parse_value(value_str) == CellValues[value_str]

Ok(val) == [exc |-> "ok", val |-> val]
Exc(type) == [exc |-> type, val |-> <<>>]

\* An _extract_breakdown that keeps the accounts worth 0.
QB_extract_breakdown_zeros(row, p) ==
    IF ~("Rows" \in DOMAIN row /\ "Row" \in DOMAIN row["Rows"]) THEN Ok(EmptyDict)
    ELSE LET subs == row["Rows"]["Row"]
             Cells(sub) == IF "Header" \in DOMAIN sub THEN sub["Header"]["ColData"]
                           ELSE sub["ColData"]
             Step(b, sub) ==
                IF ~("Header" \in DOMAIN sub \/ "ColData" \in DOMAIN sub) THEN Ok(b)
                ELSE IF Len(Cells(sub)) < p THEN Exc("IndexError")
                ELSE Ok(Put(b, Get(Cells(sub)[1], "value", "Unknown"),
                            parse_value(Get(Cells(sub)[p], "value", "0.00"))))
             F[k \in 0..Len(subs)] ==
                IF k = 0 THEN Ok(EmptyDict)
                ELSE IF F[k - 1].exc # "ok" THEN F[k - 1]
                ELSE Step(F[k - 1].val, subs[k])
         IN  F[Len(subs)]

\* An _extract_breakdown that also walks the rows nested in a child row.
QB_extract_breakdown_deep(row, p) ==
    IF ~("Rows" \in DOMAIN row /\ "Row" \in DOMAIN row["Rows"]) THEN Ok(EmptyDict)
    ELSE LET subs == row["Rows"]["Row"]
             Cells(sub) == IF "Header" \in DOMAIN sub THEN sub["Header"]["ColData"]
                           ELSE sub["ColData"]
             Nested(sub) == IF "Rows" \in DOMAIN sub THEN sub["Rows"]["Row"] ELSE <<>>
             Entry(b, sub) ==
                LET value == parse_value(Get(Cells(sub)[p], "value", "0.00"))
                IN  IF value # 0 THEN Put(b, Get(Cells(sub)[1], "value", "Unknown"), value)
                    ELSE b
             Step(b, sub) ==
                IF ~("Header" \in DOMAIN sub \/ "ColData" \in DOMAIN sub) THEN Ok(b)
                ELSE IF Len(Cells(sub)) < p THEN Exc("IndexError")
                ELSE LET G[j \in 0..Len(Nested(sub))] ==
                            IF j = 0 THEN Entry(b, sub) ELSE Entry(G[j - 1], Nested(sub)[j])
                     IN  Ok(G[Len(Nested(sub))])
             F[k \in 0..Len(subs)] ==
                IF k = 0 THEN Ok(EmptyDict)
                ELSE IF F[k - 1].exc # "ok" THEN F[k - 1]
                ELSE Step(F[k - 1].val, subs[k])
         IN  F[Len(subs)]

\* QuickBooksParser._extract_breakdown(row, col_index), with p the place of
\* cell col_index in a cell list (col_index + 1): the accounts of the child
\* rows with the value of that cell, those worth 0 left out; IndexError
\* when a child row has no cell 0 or no cell col_index.
QB_extract_breakdown(row, p) ==
    IF ~("Rows" \in DOMAIN row /\ "Row" \in DOMAIN row["Rows"]) THEN Ok(EmptyDict)
    ELSE LET subs == row["Rows"]["Row"]
             Cells(sub) == IF "Header" \in DOMAIN sub THEN sub["Header"]["ColData"]
                           ELSE sub["ColData"]
             Step(b, sub) ==
                IF ~("Header" \in DOMAIN sub \/ "ColData" \in DOMAIN sub) THEN Ok(b)
                ELSE IF Len(Cells(sub)) < p THEN Exc("IndexError")
                ELSE LET account_name == Get(Cells(sub)[1], "value", "Unknown")
                         value == parse_value(Get(Cells(sub)[p], "value", "0.00"))
                     IN  IF value # 0 THEN Ok(Put(b, account_name, value)) ELSE Ok(b)
             F[k \in 0..Len(subs)] ==
                IF k = 0 THEN Ok(EmptyDict)
                ELSE IF F[k - 1].exc # "ok" THEN F[k - 1]
                ELSE Step(F[k - 1].val, subs[k])
         IN  F[Len(subs)]

\* The metrics _extract_period_metrics starts from.
NoMetrics ==
    [revenue            |-> Num(0),
     cost_of_goods_sold |-> Num(0),
     gross_profit       |-> Num(0),
     operating_expenses |-> Num(0),
     net_profit         |-> Num(0),
     revenue_breakdown  |-> EmptyDict,
     expense_breakdown  |-> EmptyDict]

\* An _extract_period_metrics that adds up the rows of one group.
QB_extract_period_metrics_summed(rows, p) ==
    LET Step(m, row) ==
            IF "Summary" \notin DOMAIN row THEN Ok(m)
            ELSE LET col_data == row["Summary"]["ColData"]
                     group == Get(row, "group", "")
                 IN  IF Len(col_data) < p THEN Exc("IndexError")
                     ELSE LET read == parse_value(Get(col_data[p], "value", "0.00"))
                              b == QB_extract_breakdown(row, p)
                          IN  CASE group = "Income" ->
                                      IF b.exc # "ok" THEN b
                                      ELSE Ok([m EXCEPT !.revenue =
                                            Num(m.revenue.num + read),
                                                        !.revenue_breakdown = b.val])
                                [] group = "COGS" -> Ok([m EXCEPT !.cost_of_goods_sold =
                                            Num(m.cost_of_goods_sold.num + read)])
                                [] group = "GrossProfit" -> Ok([m EXCEPT !.gross_profit =
                                            Num(m.gross_profit.num + read)])
                                [] group = "Expenses" ->
                                      IF b.exc # "ok" THEN b
                                      ELSE Ok([m EXCEPT !.operating_expenses =
                                            Num(m.operating_expenses.num + read),
                                                        !.expense_breakdown = b.val])
                                [] group = "NetIncome" -> Ok([m EXCEPT !.net_profit =
                                            Num(m.net_profit.num + read)])
                                [] OTHER -> Ok(m)
        F[k \in 0..Len(rows)] ==
            IF k = 0 THEN Ok(NoMetrics)
            ELSE IF F[k - 1].exc # "ok" THEN F[k - 1]
            ELSE Step(F[k - 1].val, rows[k])
    IN  F[Len(rows)]

\* QuickBooksParser._extract_period_metrics(rows, col_index), p as above:
\* every row with a Summary sets the metric of its group from cell
\* col_index of the Summary; IndexError when the Summary has no such cell.
QB_extract_period_metrics(rows, p) ==
    LET Step(m, row) ==
            IF "Summary" \notin DOMAIN row THEN Ok(m)
            ELSE LET col_data == row["Summary"]["ColData"]
                     group == Get(row, "group", "")
                 IN  IF Len(col_data) < p THEN Exc("IndexError")
                     ELSE LET value == Num(parse_value(Get(col_data[p], "value", "0.00")))
                              b == QB_extract_breakdown(row, p)
                          IN  CASE group = "Income" ->
                                      IF b.exc # "ok" THEN b
                                      ELSE Ok([m EXCEPT !.revenue = value,
                                                        !.revenue_breakdown = b.val])
                                [] group = "COGS" -> Ok([m EXCEPT !.cost_of_goods_sold = value])
                                [] group = "GrossProfit" -> Ok([m EXCEPT !.gross_profit = value])
                                [] group = "Expenses" ->
                                      IF b.exc # "ok" THEN b
                                      ELSE Ok([m EXCEPT !.operating_expenses = value,
                                                        !.expense_breakdown = b.val])
                                [] group = "NetIncome" -> Ok([m EXCEPT !.net_profit = value])
                                [] OTHER -> Ok(m)
        F[k \in 0..Len(rows)] ==
            IF k = 0 THEN Ok(NoMetrics)
            ELSE IF F[k - 1].exc # "ok" THEN F[k - 1]
            ELSE Step(F[k - 1].val, rows[k])
    IN  F[Len(rows)]

\* The metadata loop of _extract_monthly_data on one column: the last
\* StartDate and EndDate values ("" stands for None), or KeyError when an
\* entry has no Name, or no Value where one is read.
QB_column_dates(col) ==
    LET metadata == Get(col, "MetaData", <<>>)
        Step(d, meta) ==
            IF "Name" \notin DOMAIN meta THEN Exc("KeyError")
            ELSE IF meta["Name"] \notin {"StartDate", "EndDate"} THEN Ok(d)
            ELSE IF "Value" \notin DOMAIN meta THEN Exc("KeyError")
            ELSE IF meta["Name"] = "StartDate"
                 THEN Ok([d EXCEPT !.start_date = meta["Value"]])
                 ELSE Ok([d EXCEPT !.end_date = meta["Value"]])
        F[k \in 0..Len(metadata)] ==
            IF k = 0 THEN Ok([start_date |-> "", end_date |-> ""])
            ELSE IF F[k - 1].exc # "ok" THEN F[k - 1]
            ELSE Step(F[k - 1].val, metadata[k])
    IN  F[Len(metadata)]

\* An _extract_monthly_data that makes a draft of the Total column too.
QB_extract_monthly_data_total(data) ==
    IF "Columns" \notin DOMAIN data \/ "Rows" \notin DOMAIN data THEN Exc("KeyError")
    ELSE LET columns == data["Columns"]["Column"]
             rows == data["Rows"]["Row"]
             Step(periods, k) ==
                LET dates == QB_column_dates(columns[k])
                IN  IF dates.exc # "ok" THEN dates
                    ELSE IF dates.val.start_date = "" \/ dates.val.end_date = ""
                    THEN Ok(periods)
                    ELSE LET m == QB_extract_period_metrics(rows, k)
                         IN  IF m.exc # "ok" THEN m
                             ELSE Ok(Append(periods,
                                    [x \in {"period_start", "period_end", "source"}
                                            \cup DOMAIN m.val |->
                                        CASE x = "period_start" -> Str(dates.val.start_date)
                                          [] x = "period_end" -> Str(dates.val.end_date)
                                          [] x = "source" -> "quickbooks"
                                          [] OTHER -> m.val[x]]))
             F[k \in 1..Len(columns)] ==
                IF k = 1 THEN Ok(<<>>)
                ELSE IF F[k - 1].exc # "ok" THEN F[k - 1]
                ELSE Step(F[k - 1].val, k)
         IN  IF Len(columns) = 0 THEN Ok(<<>>) ELSE F[Len(columns)]

\* An _extract_monthly_data that reads for a draft the cell after the one of
\* the draft before it, whatever columns were skipped.
QB_extract_monthly_data_packed(data) ==
    IF "Columns" \notin DOMAIN data \/ "Rows" \notin DOMAIN data THEN Exc("KeyError")
    ELSE LET columns == data["Columns"]["Column"]
             rows == data["Rows"]["Row"]
             Step(periods, k) ==
                IF Get(columns[k], "ColTitle", "") = "Total" THEN Ok(periods)
                ELSE LET dates == QB_column_dates(columns[k])
                     IN  IF dates.exc # "ok" THEN dates
                         ELSE IF dates.val.start_date = "" \/ dates.val.end_date = ""
                         THEN Ok(periods)
                         ELSE LET m == QB_extract_period_metrics(rows, Len(periods) + 2)
                              IN  IF m.exc # "ok" THEN m
                                  ELSE Ok(Append(periods,
                                        [x \in {"period_start", "period_end", "source"}
                                                \cup DOMAIN m.val |->
                                            CASE x = "period_start" -> Str(dates.val.start_date)
                                              [] x = "period_end" -> Str(dates.val.end_date)
                                              [] x = "source" -> "quickbooks"
                                              [] OTHER -> m.val[x]]))
             F[k \in 1..Len(columns)] ==
                IF k = 1 THEN Ok(<<>>)
                ELSE IF F[k - 1].exc # "ok" THEN F[k - 1]
                ELSE Step(F[k - 1].val, k)
         IN  IF Len(columns) = 0 THEN Ok(<<>>) ELSE F[Len(columns)]

\* QuickBooksParser._extract_monthly_data(data), data being the object under
\* the key 'data' of the document: the first column is left out, a column
\* titled "Total" and a column without a start or end date are skipped,
\* every other column gives one draft; KeyError when the Columns or Rows
\* section is absent, and any exception of a column or row ends the whole.
QB_extract_monthly_data(data) ==
    IF "Columns" \notin DOMAIN data \/ "Rows" \notin DOMAIN data THEN Exc("KeyError")
    ELSE LET columns == data["Columns"]["Column"]
             rows == data["Rows"]["Row"]
             Step(periods, k) ==
                IF Get(columns[k], "ColTitle", "") = "Total" THEN Ok(periods)
                ELSE LET dates == QB_column_dates(columns[k])
                     IN  IF dates.exc # "ok" THEN dates
                         ELSE IF dates.val.start_date = "" \/ dates.val.end_date = ""
                         THEN Ok(periods)
                         ELSE LET m == QB_extract_period_metrics(rows, k)
                              IN  IF m.exc # "ok" THEN m
                                  ELSE Ok(Append(periods,
                                        [x \in {"period_start", "period_end", "source"}
                                                \cup DOMAIN m.val |->
                                            CASE x = "period_start" -> Str(dates.val.start_date)
                                              [] x = "period_end" -> Str(dates.val.end_date)
                                              [] x = "source" -> "quickbooks"
                                              [] OTHER -> m.val[x]]))
             F[k \in 1..Len(columns)] ==
                IF k = 1 THEN Ok(<<>>)
                ELSE IF F[k - 1].exc # "ok" THEN F[k - 1]
                ELSE Step(F[k - 1].val, k)
         IN  IF Len(columns) = 0 THEN Ok(<<>>) ELSE F[Len(columns)]

\* QuickBooksParser.parse_file on a file that is read as JSON document data:
\* the drafts, or DataSourceError for any exception of the extraction.
QB_parse_document(data) ==
    LET r == QB_extract_monthly_data(data)
    IN  IF r.exc = "ok" THEN Return(r.val)
        ELSE Raise("DataSourceError", <<"Failed to parse QuickBooks data: ", r.exc>>)

\* The columns of the reports of the model.  The first column of a report
\* is the label column.
AccountColumn == [ColTitle |-> "", ColType |-> "Account"]
MonthColumn(title, sd, ed) ==
    [ColTitle |-> title,
     MetaData |-> <<[Name |-> "StartDate", Value |-> sd],
                    [Name |-> "EndDate", Value |-> ed],
                    [Name |-> "ColKey", Value |-> title]>>]
\* A column with a start date only, one without metadata, and one whose
\* metadata has an entry without a Name.
NoEndColumn ==
    [ColTitle |-> "Mar 2024", MetaData |-> <<[Name |-> "StartDate", Value |-> "2024-03-01"]>>]
NoMetaColumn == [ColTitle |-> "Apr 2024"]
BadMetaColumn ==
    [ColTitle |-> "May 2024",
     MetaData |-> <<[Value |-> "2024-05-01"], [Name |-> "EndDate", Value |-> "2024-05-31"]>>]
WellFormedColumns ==
    {MonthColumn("Jan 2024", "2024-01-01", "2024-01-31"),
     MonthColumn("Feb 2024", "2024-02-01", "2024-02-29"),
     MonthColumn("Total", "2024-01-01", "2024-02-29"),
     NoEndColumn, NoMetaColumn}
ReportColumns == WellFormedColumns \cup {BadMetaColumn}

\* The text of the cells of column k (k = 2 is the first month column).
AmountText(k) ==
    CASE k = 2 -> "100.00"
      [] k = 3 -> "1,200.00"
      [] k = 4 -> "0.00"
      [] OTHER -> "250.00"

\* A cell list of a row for a report of n columns: the label, then the
\* cell Text(k) for every column k.
CellList(label, n, Text(_)) ==
    [k \in 1..n |-> IF k = 1 THEN [value |-> label] ELSE [value |-> Text(k)]]

\* Rows of a report of n columns where groups come more than once: an
\* Income row (account Old) before the Income row of the report, whose
\* child Sales has a Header and a child row of its own (Online), and an
\* Income row without Summary after it; a COGS row whose Summary has an
\* empty cell and a cell without value; rows of the group OtherIncome and
\* of no group; two Expenses rows.
RepeatedRows(n) ==
    LET Fifty(k) == "50.00"
        Zero(k) == "0.00"
    IN  <<[group   |-> "Income",
           Rows    |-> [Row |-> <<[ColData |-> CellList("Old", n, Fifty)]>>],
           Summary |-> [ColData |-> CellList("Total Old Income", n, Fifty)]],
          [Header  |-> [ColData |-> CellList("Income", n, Zero)],
           group   |-> "Income",
           Rows    |-> [Row |-> <<[Header  |-> [ColData |-> CellList("Sales", n, AmountText)],
                                   Rows    |-> [Row |-> <<[ColData |-> CellList("Online", n, Fifty)]>>],
                                   ColData |-> CellList("Sales Total", n, Fifty)],
                                  [ColData |-> CellList("Services", n, Zero)],
                                  [type |-> "Section"]>>],
           Summary |-> [ColData |-> CellList("Total Income", n, AmountText)]],
          [group   |-> "Income",
           Rows    |-> [Row |-> <<[ColData |-> CellList("Ghost", n, Fifty)]>>]],
          [group   |-> "COGS",
           Summary |-> [ColData |-> [k \in 1..n |->
                            CASE k = 1 -> [value |-> "Total COGS"]
                              [] k = 2 -> [value |-> ""]
                              [] k = 3 -> [id |-> "3"]
                              [] OTHER -> [value |-> "50.00"]]]],
          [group   |-> "OtherIncome",
           Rows    |-> [Row |-> <<[ColData |-> CellList("Interest", n, Fifty)]>>],
           Summary |-> [ColData |-> CellList("Total Other Income", n, Fifty)]],
          [Summary |-> [ColData |-> CellList("Notes", n, Fifty)]],
          [group   |-> "Expenses",
           Rows    |-> [Row |-> <<[ColData |-> CellList("Rent", n, AmountText)]>>],
           Summary |-> [ColData |-> CellList("Total Expenses", n, AmountText)]],
          [group   |-> "Expenses",
           Rows    |-> [Row |-> <<[ColData |-> CellList("Wages", n, Fifty)]>>],
           Summary |-> [ColData |-> CellList("Total Expenses", n, Fifty)]],
          [group   |-> "NetIncome",
           Summary |-> [ColData |-> CellList("Net Income", n, AmountText)]]>>

\* The rows of a report of n columns.  kind "repeated": the rows above.
\* kind "good": an Income section with
\* the accounts Sales and (worth 0) Services, an Expenses section whose
\* account Rent comes twice, worth 50 and then 0, and the GrossProfit and
\* NetIncome rows.  kind "shortSummary": the Income summary has the label
\* cell only.  kind "shortChild": the Sales row has the label cell only.
ReportRows(n, kind) ==
    LET Fifty(k) == "50.00"
        Zero(k) == "0.00"
        short == <<[value |-> "x"]>>
    IN  IF kind = "repeated" THEN RepeatedRows(n) ELSE
        <<[Header  |-> [ColData |-> CellList("Income", n, Zero)],
           group   |-> "Income",
           Rows    |-> [Row |-> <<[ColData |-> IF kind = "shortChild" THEN short
                                               ELSE CellList("Sales", n, AmountText)],
                                  [ColData |-> CellList("Services", n, Zero)]>>],
           Summary |-> [ColData |-> IF kind = "shortSummary" THEN short
                                    ELSE CellList("Total Income", n, AmountText)]],
          [group   |-> "GrossProfit",
           Summary |-> [ColData |-> CellList("Gross Profit", n, AmountText)]],
          [group   |-> "Expenses",
           Rows    |-> [Row |-> <<[ColData |-> CellList("Rent", n, Fifty)],
                                  [ColData |-> CellList("Rent", n, Zero)]>>],
           Summary |-> [ColData |-> CellList("Total Expenses", n, Fifty)]],
          [group   |-> "NetIncome",
           Summary |-> [ColData |-> CellList("Net Income", n, AmountText)]]>>

RowKinds == {"good", "shortSummary", "shortChild", "repeated"}

\* The documents of the model (the object under the key 'data'): the label
\* column and up to MaxColumns other columns, with rows of one of the three
\* kinds (four with the repeated groups), or without the Rows section.
QBDocuments ==
    LET lists == {<<AccountColumn>> \o cs : cs \in SeqsUpTo(ReportColumns, MaxColumns)}
    IN  {[Columns |-> [Column |-> cols],
          Rows    |-> [Row |-> ReportRows(Len(cols), kind)]] :
                cols \in lists, kind \in RowKinds}
        \cup {[Columns |-> [Column |-> cols]] : cols \in lists}

\* ------------------------------------------------- the Rootfi parser in full
\* Longest list of line items at the top level of a record in the model.
MaxItems == 2

\* RootfiParser._sum_line_items with the values of the nested items added.
RECURSIVE Rootfi_sum_nested(_)
Rootfi_sum_nested(line_items) ==
    LET F[k \in 0..Len(line_items)] ==
            IF k = 0 THEN 0
            ELSE F[k - 1] + Get(line_items[k], "value", 0)
                    + Rootfi_sum_nested(Get(line_items[k], "line_items", <<>>))
    IN  F[Len(line_items)]

\* RootfiParser._sum_line_items: the sum of item.get('value', 0.0) over the
\* items of the list.
Rootfi_sum_line_items(line_items) ==
    LET F[k \in 0..Len(line_items)] ==
            IF k = 0 THEN 0 ELSE F[k - 1] + Get(line_items[k], "value", 0)
    IN  F[Len(line_items)]

\* breakdown.update(sub_breakdown).
Update(b, sub) ==
    [x \in DOMAIN b \cup DOMAIN sub |-> IF x \in DOMAIN sub THEN sub[x] ELSE b[x]]

\* An _extract_breakdown that does not descend into line_items.
Rootfi_breakdown_flat(line_items) ==
    LET F[k \in 0..Len(line_items)] ==
            IF k = 0 THEN EmptyDict
            ELSE LET value == Get(line_items[k], "value", 0)
                 IN  IF value # 0
                     THEN Put(F[k - 1], Get(line_items[k], "name", "Unknown"), value)
                     ELSE F[k - 1]
    IN  F[Len(line_items)]

\* RootfiParser._extract_breakdown: for every item in list order, its name
\* gets its value unless the value is 0, then the breakdown of its
\* line_items (if it has any) is written over what is there.
RECURSIVE Rootfi_extract_breakdown(_)
Rootfi_extract_breakdown(line_items) ==
    LET F[k \in 0..Len(line_items)] ==
            IF k = 0 THEN EmptyDict
            ELSE LET item == line_items[k]
                     value == Get(item, "value", 0)
                     own == IF value # 0
                            THEN Put(F[k - 1], Get(item, "name", "Unknown"), value)
                            ELSE F[k - 1]
                 IN  IF "line_items" \in DOMAIN item /\ item["line_items"] # <<>>
                     THEN Update(own, Rootfi_extract_breakdown(item["line_items"]))
                     ELSE own
    IN  F[Len(line_items)]

\* The dict _transform_data makes of one record that has both dates.
Rootfi_period_data(record) ==
    [period_start           |-> Str(record["period_start"]),
     period_end             |-> Str(record["period_end"]),
     source                 |-> "rootfi",
     revenue                |-> Num(Rootfi_sum_line_items(Get(record, "revenue", <<>>))),
     cost_of_goods_sold     |-> Num(Rootfi_sum_line_items(Get(record, "cost_of_goods_sold", <<>>))),
     gross_profit           |-> Get(record, "gross_profit", Num(0)),
     operating_expenses     |-> Num(Rootfi_sum_line_items(Get(record, "operating_expenses", <<>>))),
     operating_profit       |-> Get(record, "operating_profit", Num(0)),
     non_operating_revenue  |-> Num(Rootfi_sum_line_items(Get(record, "non_operating_revenue", <<>>))),
     non_operating_expenses |-> Num(Rootfi_sum_line_items(Get(record, "non_operating_expenses", <<>>))),
     net_profit             |-> Get(record, "net_profit", Num(0)),
     revenue_breakdown      |-> Rootfi_extract_breakdown(Get(record, "revenue", <<>>)),
     expense_breakdown      |-> Rootfi_extract_breakdown(Get(record, "operating_expenses", <<>>))]

\* RootfiParser._transform_data(records): one dict per record, in order;
\* KeyError when a record has no period_start or no period_end.
Rootfi_transform_data(records) ==
    IF \E k \in 1..Len(records) :
            "period_start" \notin DOMAIN records[k] \/ "period_end" \notin DOMAIN records[k]
    THEN Exc("KeyError")
    ELSE Ok([k \in 1..Len(records) |-> Rootfi_period_data(records[k])])

\* RootfiParser.parse_file on a file that is read as a JSON document whose
\* 'data' is records: the drafts, or DataSourceError.
Rootfi_parse_document(records) ==
    LET r == Rootfi_transform_data(records)
    IN  IF r.exc = "ok" THEN Return(r.val)
        ELSE Raise("DataSourceError", <<"Failed to parse Rootfi data: ", r.exc>>)

\* The line items of the model: items without line_items, items with
\* line_items one, two and no levels deep, and an item without a value.
Item(n, v) == [name |-> n, value |-> v]
ItemWith(n, v, items) == [name |-> n, value |-> v, line_items |-> items]
LineItems ==
    {Item(n, v) : n \in {"Sales", "Online"}, v \in {0, 300}}
        \cup {ItemWith(n, v, items) :
                n \in {"Sales", "Online"}, v \in {0, 500},
                items \in {<<>>,
                           <<Item("Online", 300)>>,
                           <<Item("Sales", 0)>>,
                           <<Item("Online", 300), Item("Online", 0)>>,
                           <<ItemWith("Online", 300, <<Item("Sales", 700)>>)>>}}
        \cup {[name |-> "Sales"]}

\* The five fields of a record that hold line items.
LineItemFields == {"revenue", "cost_of_goods_sold", "operating_expenses",
                   "non_operating_revenue", "non_operating_expenses"}

\* The record of January with the line items items in field f; its
\* operating expenses, when f is another field, are Rent 50 and Rent 0.
RootfiRecord(f, items) ==
    LET base == [period_start       |-> "2024-01-01",
                 period_end         |-> "2024-01-31",
                 gross_profit       |-> Num(100),
                 operating_profit   |-> Num(10),
                 net_profit         |-> Num(90),
                 operating_expenses |-> <<Item("Rent", 50), Item("Rent", 0)>>]
    IN  Put(base, f, items)

\* The record lists of the model: one record, or one record and a record
\* without period_start or without period_end after or before it; a record
\* that has its dates only, records whose operating_profit is a text or
\* null, and a record whose net_profit is NaN (json.load reads NaN).
RootfiDocuments ==
    LET good == {RootfiRecord(f, items) :
                    f \in LineItemFields, items \in SeqsUpTo(LineItems, MaxItems)}
        bad == {[period_end |-> "2024-02-29", revenue |-> <<Item("Sales", 300)>>],
                [period_start |-> "2024-02-01", revenue |-> <<Item("Sales", 300)>>]}
        sparse == {[period_start |-> "2024-01-01", period_end |-> "2024-01-31"],
                   RootfiRecord("operating_profit", Str("abc")),
                   RootfiRecord("operating_profit", Null),
                   RootfiRecord("net_profit", NaN)}
    IN  {<<r>> : r \in good \cup sparse}
            \cup {<<RootfiRecord("revenue", <<Item("Sales", 300)>>), b>> : b \in bad}
            \cup {<<b, RootfiRecord("revenue", <<Item("Sales", 300)>>)>> : b \in bad}

\* ------------------------------------------------- the parsers on their own
InitParser ==
    /\ NoLoad
    /\ \/ arg \in [path : {QUICKBOOKS_DATA_FILE}, data : QBDocuments]
       \/ arg \in [path : {ROOTFI_DATA_FILE}, data : RootfiDocuments]
    /\ ret = <<>>

\* QuickBooksParser.parse_file is called on a file that holds arg.data.
ParseQB ==
    /\ ret = <<>>
    /\ arg.path = QUICKBOOKS_DATA_FILE
    /\ ret' = <<QB_parse_document(arg.data)>>
    /\ UNCHANGED arg
    /\ UNCHANGED load

\* RootfiParser.parse_file is called on a file that holds arg.data.
ParseRootfi ==
    /\ ret = <<>>
    /\ arg.path = ROOTFI_DATA_FILE
    /\ ret' = <<Rootfi_parse_document(arg.data)>>
    /\ UNCHANGED arg
    /\ UNCHANGED load

\* _load_periods is called with the drafts the parser returned, on the
\* empty table.
LoadParsed ==
    /\ ret # <<>> /\ ret[1].exc = "ok"
    /\ pc[1] = "idle"
    /\ ~FlushFails(ForLoop(store, ret[1].data))
    /\ store' = Flushed(store, ForLoop(store, ret[1].data))
    /\ pc' = [pc EXCEPT ![1] = "done"]
    /\ UNCHANGED <<files, lastRun, qb_data, rootfi_data, qb_count, result, before, prior,
                   session, arg, ret>>

NextParser ==
    \/ ParseQB
    \/ ParseRootfi
    \/ LoadParsed

ParserSpec == InitParser /\ [][NextParser]_vars

\* What the contract says of a document -------------------------------------
HasEnvelope(doc) == "Columns" \in DOMAIN doc /\ "Rows" \in DOMAIN doc
\* The value of the metadata entry of column col named name, "" if none.
MetaValue(col, name) ==
    IF "MetaData" \in DOMAIN col
       /\ \E i \in 1..Len(col["MetaData"]) :
            "Name" \in DOMAIN col["MetaData"][i] /\ col["MetaData"][i]["Name"] = name
    THEN LET i == CHOOSE i \in 1..Len(col["MetaData"]) :
                    "Name" \in DOMAIN col["MetaData"][i] /\ col["MetaData"][i]["Name"] = name
         IN  col["MetaData"][i]["Value"]
    ELSE ""
WellFormedColumn(col) ==
    "MetaData" \in DOMAIN col =>
        \A i \in 1..Len(col["MetaData"]) :
            "Name" \in DOMAIN col["MetaData"][i] /\ "Value" \in DOMAIN col["MetaData"][i]
\* Every cell list of the rows has n cells.
WellFormedRows(rows, n) ==
    \A i \in 1..Len(rows) :
        /\ "Summary" \in DOMAIN rows[i] => Len(rows[i]["Summary"]["ColData"]) = n
        /\ "Rows" \in DOMAIN rows[i] =>
                \A j \in 1..Len(rows[i]["Rows"]["Row"]) :
                    LET sub == rows[i]["Rows"]["Row"][j]
                    IN  /\ "Header" \in DOMAIN sub => Len(sub["Header"]["ColData"]) = n
                        /\ "ColData" \in DOMAIN sub => Len(sub["ColData"]) = n
WellFormedReport(doc) ==
    /\ HasEnvelope(doc)
    /\ \A k \in 1..Len(doc["Columns"]["Column"]) : WellFormedColumn(doc["Columns"]["Column"][k])
    /\ WellFormedRows(doc["Rows"]["Row"], Len(doc["Columns"]["Column"]))
\* Column k of the report is not the label column, is not titled "Total"
\* and has a StartDate and an EndDate.
MonthOfReport(doc, k) ==
    LET col == doc["Columns"]["Column"][k]
    IN  /\ k > 1
        /\ col["ColTitle"] # "Total"
        /\ MetaValue(col, "StartDate") # ""
        /\ MetaValue(col, "EndDate") # ""
\* The <<StartDate, EndDate>> of the columns of the report for which
\* Keep(k) holds, in column order.
DatesOfColumns(doc, Keep(_)) ==
    LET cols == doc["Columns"]["Column"]
        F[k \in 0..Len(cols)] ==
            IF k = 0 THEN <<>>
            ELSE IF Keep(k)
                 THEN Append(F[k - 1], <<MetaValue(cols[k], "StartDate"),
                                         MetaValue(cols[k], "EndDate")>>)
                 ELSE F[k - 1]
    IN  F[Len(cols)]
\* The <<period_start, period_end>> of the drafts, in their order.
DatesOfDrafts(drafts) ==
    [i \in 1..Len(drafts) |-> <<drafts[i]["period_start"].str, drafts[i]["period_end"].str>>]

\* parse_file has been called on a QuickBooks file.
ParsedQB == ret # <<>> /\ arg.path = QUICKBOOKS_DATA_FILE

\* C14: for a well-formed report the parser returns one draft for every
\* column that is not the first, is not titled "Total" and has a StartDate
\* and an EndDate, in column order, with the dates of the column as
\* period_start and period_end and "quickbooks" as source.
C14_DraftPerMonthColumn ==
    ParsedQB /\ WellFormedReport(arg.data) =>
        /\ ret[1].exc = "ok"
        /\ LET Keep(k) == MonthOfReport(arg.data, k)
           IN  DatesOfDrafts(ret[1].data) = DatesOfColumns(arg.data, Keep)
        /\ \A i \in 1..Len(ret[1].data) : ret[1].data[i]["source"] = "quickbooks"

\* C14 witness: a report with the columns Account, Jan, Feb, Total was
\* parsed into two drafts.
C14_Witness ==
    /\ ParsedQB /\ WellFormedReport(arg.data)
    /\ Len(arg.data["Columns"]["Column"]) = 4
    /\ arg.data["Columns"]["Column"][2]["ColTitle"] = "Jan 2024"
    /\ arg.data["Columns"]["Column"][3]["ColTitle"] = "Feb 2024"
    /\ arg.data["Columns"]["Column"][4]["ColTitle"] = "Total"
    /\ ret[1].exc = "ok" /\ Len(ret[1].data) = 2

\* C15: a report that has its Columns and Rows sections is parsed whatever
\* single column or row of it is malformed: the parse succeeds and returns
\* the drafts of the well-formed month columns.
C15_ItemTolerance ==
    ParsedQB /\ HasEnvelope(arg.data) =>
        /\ ret[1].exc = "ok"
        /\ LET Keep(k) == /\ WellFormedColumn(arg.data["Columns"]["Column"][k])
                          /\ MonthOfReport(arg.data, k)
           IN  DatesOfDrafts(ret[1].data) = DatesOfColumns(arg.data, Keep)

\* parse_file has been called on a Rootfi file and returned drafts.
ParsedRootfi == ret # <<>> /\ arg.path = ROOTFI_DATA_FILE /\ ret[1].exc = "ok"

\* The sum of a sequence of numbers.
RECURSIVE SumOf(_)
SumOf(seq) == IF seq = <<>> THEN 0 ELSE Head(seq) + SumOf(Tail(seq))

\* The values of the items of a list, without what is nested in them.
TopLevelValues(items) ==
    [k \in 1..Len(items) |-> IF "value" \in DOMAIN items[k] THEN items[k]["value"] ELSE 0]

\* The items of a list without their line_items.
Stripped(items) ==
    [k \in 1..Len(items) |-> [x \in DOMAIN items[k] \ {"line_items"} |-> items[k][x]]]

\* C16: in every draft of a line-item record each of revenue,
\* cost_of_goods_sold, operating_expenses, non_operating_revenue and
\* non_operating_expenses is the sum of the values of the top-level items of
\* its list (0 without a list), and is what the same list gives with all
\* nested line_items removed.
C16_TopLevelTotals ==
    ParsedRootfi =>
        \A k \in 1..Len(arg.data) : \A f \in LineItemFields :
            LET items == IF f \in DOMAIN arg.data[k] THEN arg.data[k][f] ELSE <<>>
            IN  /\ ret[1].data[k][f] = Num(SumOf(TopLevelValues(items)))
                /\ ret[1].data[k][f] = Num(Rootfi_sum_line_items(Stripped(items)))

\* C16 witness: a record whose revenue is the item Sales 500 with the child
\* Online 300 gave a draft with revenue 500.
C16_Witness ==
    /\ ParsedRootfi
    /\ "revenue" \in DOMAIN arg.data[1]
    /\ arg.data[1]["revenue"] = <<ItemWith("Sales", 500, <<Item("Online", 300)>>)>>
    /\ ret[1].data[1]["revenue"] = Num(500)

\* The <<name, value>> of the items of a list and of everything nested in
\* them, depth first, an item before its line_items.
RECURSIVE PreOrder(_)
PreOrder(items) ==
    IF items = <<>> THEN <<>>
    ELSE LET item == Head(items)
         IN  <<<<IF "name" \in DOMAIN item THEN item["name"] ELSE "Unknown",
                 IF "value" \in DOMAIN item THEN item["value"] ELSE 0>>>>
                \o (IF "line_items" \in DOMAIN item THEN PreOrder(item["line_items"]) ELSE <<>>)
                \o PreOrder(Tail(items))

\* Breakdown b is the flattening of the items: its names are the names of
\* the items worth something other than 0, each with the value of the last
\* such item of that name in depth-first order.
Flattens(b, items) ==
    LET po == PreOrder(items)
        NonZero(n) == {i \in 1..Len(po) : po[i][1] = n /\ po[i][2] # 0}
    IN  /\ DOMAIN b = {po[i][1] : i \in {j \in 1..Len(po) : po[j][2] # 0}}
        /\ \A n \in DOMAIN b :
                b[n] = po[CHOOSE i \in NonZero(n) : \A j \in NonZero(n) : j <= i][2]

\* C17: revenue_breakdown and expense_breakdown of every draft of a
\* line-item record flatten the revenue and operating_expenses items: an
\* entry for every name of an item worth other than 0 at any depth, with the
\* value of the last such item in depth-first pre-order, and no other name.
C17_BreakdownFlattening ==
    ParsedRootfi =>
        \A k \in 1..Len(arg.data) :
            /\ Flattens(ret[1].data[k]["revenue_breakdown"],
                        IF "revenue" \in DOMAIN arg.data[k] THEN arg.data[k]["revenue"] ELSE <<>>)
            /\ Flattens(ret[1].data[k]["expense_breakdown"],
                        IF "operating_expenses" \in DOMAIN arg.data[k]
                        THEN arg.data[k]["operating_expenses"] ELSE <<>>)

\* C17 witness: a record whose revenue holds Sales 500 with the child Online
\* 300 with the child Sales 700, and then Online 300, gave the breakdown
\* Sales 700, Online 300.
C17_Witness ==
    /\ ParsedRootfi
    /\ "revenue" \in DOMAIN arg.data[1]
    /\ arg.data[1]["revenue"] =
            <<ItemWith("Sales", 500, <<ItemWith("Online", 300, <<Item("Sales", 700)>>)>>),
              Item("Online", 300)>>
    /\ ret[1].data[1]["revenue_breakdown"] = [Sales |-> 700, Online |-> 300]

NoZeroEntry(b) == \A n \in DOMAIN b : b[n] # 0

\* C18: no revenue_breakdown or expense_breakdown of a draft of either
\* parser, or of a record stored from such drafts, has an entry worth 0.
C18_NoZeroEntries ==
    /\ ret # <<>> /\ ret[1].exc = "ok" =>
            \A k \in 1..Len(ret[1].data) :
                /\ NoZeroEntry(ret[1].data[k]["revenue_breakdown"])
                /\ NoZeroEntry(ret[1].data[k]["expense_breakdown"])
    /\ \A i \in 1..Len(store) :
            /\ NoZeroEntry(store[i].revenue_breakdown)
            /\ NoZeroEntry(store[i].expense_breakdown)

\* C18 witness: a record whose revenue items are Sales 300 and then Sales 0
\* (and whose expenses are Rent 50 and then Rent 0) was parsed and its
\* draft stored with the breakdowns Sales 300 and Rent 50.
C18_Witness ==
    /\ pc[1] = "done" /\ Len(store) > 0
    /\ arg.path = ROOTFI_DATA_FILE
    /\ "revenue" \in DOMAIN arg.data[1]
    /\ arg.data[1]["revenue"] = <<Item("Sales", 300), Item("Sales", 0)>>
    /\ store[1].revenue_breakdown = [Sales |-> 300]
    /\ store[1].expense_breakdown = [Rent |-> 50]

\* ------------------------------------------- a record without one of its dates
\* Records of the line-item document without period_start, without
\* period_end.
UndatedRecords ==
    {[period_end |-> "2024-01-31", revenue |-> 100, operating_profit |-> Num(10)],
     [period_start |-> "2024-01-01", revenue |-> 100, operating_profit |-> Num(10)]}

\* A record without one of its dates is put before or after the records of
\* the Rootfi file, between two loads.
BreakRecord ==
    /\ \A c \in DOMAIN pc : pc[c] = "idle"
    /\ files.rootfi.status = "ok"
    /\ \A k \in 1..Len(files.rootfi.content) : HasDates(files.rootfi.content[k])
    /\ \E r \in UndatedRecords :
          \/ files' = [files EXCEPT !.rootfi.content = Append(files.rootfi.content, r)]
          \/ files' = [files EXCEPT !.rootfi.content = <<r>> \o files.rootfi.content]
    /\ lastRun' = "none"
    /\ UNCHANGED <<store, pc>>
    /\ UNCHANGED locals
    /\ UNCHANGED aux

NextUndated ==
    \/ \E c \in DOMAIN pc : Start(c)
    \/ \E c \in DOMAIN pc : LoadPeriods(c)
    \/ \E c \in DOMAIN pc : Close(c)
    \/ BreakRecord

UndatedSpec == Init /\ [][NextUndated]_vars

\* The Rootfi file is read as JSON and one of its records has no
\* period_start or no period_end.
UndatedRecord ==
    /\ files.rootfi.status = "ok"
    /\ \E k \in 1..Len(files.rootfi.content) : ~HasDates(files.rootfi.content[k])

\* C19: a load whose Rootfi document has a record without period_start or
\* period_end gets no Rootfi draft at all, fails, and leaves the store as it
\* was: no record of either source is stored.
C19_UndatedRecordAborts ==
    \A c \in Callers :
        pc[c] = "done" /\ files.qb.status = "ok" /\ UndatedRecord =>
            /\ rootfi_data[c] = <<>>
            /\ result[c].status \notin {"ok", "none"}
            /\ store = before[c]

\* C19 witness: a load failed whose Rootfi document holds a record with
\* both dates and one without, and whose QuickBooks report holds a valid
\* month that is not stored.
C19_Witness ==
    \E c \in Callers :
        /\ pc[c] = "done" /\ files.qb.status = "ok" /\ UndatedRecord
        /\ Len(files.rootfi.content) > 1
        /\ \E k \in 1..Len(files.qb.content) :
                LET d == extract_monthly_data(files.qb.content)[k]
                IN  Valid(d) /\ Matching(store, d) = {}
        /\ result[c].status = "DataProcessingError"

\* --------------------------------------------------- two calls at the same time
\* Two callers, each with its own session (get_db), on one empty table.
InitConcurrent ==
    /\ files \in [qb : QBFiles, rootfi : RootfiFiles]
    /\ store = <<>>
    /\ lastRun = "none"
    /\ pc = [c \in {1, 2} |-> "idle"]
    /\ qb_data = [c \in {1, 2} |-> <<>>]
    /\ rootfi_data = [c \in {1, 2} |-> <<>>]
    /\ qb_count = [c \in {1, 2} |-> 0]
    /\ result = [c \in {1, 2} |-> NoResult]
    /\ before = [c \in {1, 2} |-> <<>>]
    /\ prior = [c \in {1, 2} |-> "none"]
    /\ session = [c \in {1, 2} |-> EmptySession]
    /\ arg = <<>>
    /\ ret = <<>>

\* The for loop of _load_periods: every lookup reads the rows committed so
\* far, the objects it adds or changes stay in the caller's session.
Lookups(c) ==
    /\ pc[c] \in {"qb", "rootfi"}
    /\ session' = [session EXCEPT ![c] = ForLoop(store, Batch(c))]
    /\ pc' = [pc EXCEPT ![c] = IF pc[c] = "qb" THEN "qb_commit" ELSE "rootfi_commit"]
    /\ UNCHANGED <<files, store, lastRun>>
    /\ UNCHANGED locals
    /\ UNCHANGED <<arg, ret>>

\* A commit that, when a value cannot be bound, keeps the new records that
\* can be written.
CommitPartial(c) ==
    /\ pc[c] \in {"qb_commit", "rootfi_commit"}
    /\ session' = [session EXCEPT ![c] = EmptySession]
    /\ IF FlushFails(session[c])
       THEN /\ result' = [result EXCEPT ![c] =
                            Raised(load_data_except(Raise("InterfaceError", BindErrorMsg)))]
            /\ pc' = [pc EXCEPT ![c] = "done"]
            /\ lastRun' = "failed"
            /\ store' = store \o SelectSeq(session[c].new, LAMBDA row : ~Unbindable(row))
            /\ UNCHANGED qb_count
       ELSE /\ store' = Flushed(store, session[c])
            /\ IF pc[c] = "qb_commit"
               THEN /\ qb_count' = [qb_count EXCEPT ![c] = session[c].count]
                    /\ pc' = [pc EXCEPT ![c] = "rootfi"]
                    /\ UNCHANGED <<result, lastRun>>
               ELSE /\ result' = [result EXCEPT ![c] =
                                    Returned(qb_count[c], session[c].count)]
                    /\ pc' = [pc EXCEPT ![c] = "done"]
                    /\ lastRun' = "ok"
                    /\ UNCHANGED qb_count
    /\ UNCHANGED <<files, qb_data, rootfi_data, before, prior>>
    /\ UNCHANGED <<arg, ret>>

\* self.db.commit() of _load_periods and what follows it in
\* load_data_from_sources: the session is flushed in one transaction; the
\* call that returns or raises is the last finished load.
Commit(c) ==
    /\ pc[c] \in {"qb_commit", "rootfi_commit"}
    /\ session' = [session EXCEPT ![c] = EmptySession]
    /\ IF FlushFails(session[c])
       THEN /\ result' = [result EXCEPT ![c] =
                            Raised(load_data_except(Raise("InterfaceError", BindErrorMsg)))]
            /\ pc' = [pc EXCEPT ![c] = "done"]
            /\ lastRun' = "failed"
            /\ UNCHANGED <<store, qb_count>>
       ELSE /\ store' = Flushed(store, session[c])
            /\ IF pc[c] = "qb_commit"
               THEN /\ qb_count' = [qb_count EXCEPT ![c] = session[c].count]
                    /\ pc' = [pc EXCEPT ![c] = "rootfi"]
                    /\ UNCHANGED <<result, lastRun>>
               ELSE /\ result' = [result EXCEPT ![c] =
                                    Returned(qb_count[c], session[c].count)]
                    /\ pc' = [pc EXCEPT ![c] = "done"]
                    /\ lastRun' = "ok"
                    /\ UNCHANGED qb_count
    /\ UNCHANGED <<files, qb_data, rootfi_data, before, prior>>
    /\ UNCHANGED <<arg, ret>>

NextConcurrent ==
    \/ \E c \in DOMAIN pc : Start(c)
    \/ \E c \in DOMAIN pc : Lookups(c)
    \/ \E c \in DOMAIN pc : Commit(c)

ConcurrentSpec == InitConcurrent /\ [][NextConcurrent]_vars

\* The call of caller c began after a call had returned or raised out of
\* _load_periods.  Every caller makes one call here, so the two calls did
\* not overlap.
Serialized(c) == prior[c] # "none"

\* C20: a call that begins after the other call has finished adds no row
\* and counts no insert, and no object it is about to insert has the
\* identity of a stored row: no duplicate arises between serialized calls.
C20_SerializedNoDuplicate ==
    \A c \in Callers :
        Serialized(c) =>
            /\ Len(store) = Len(before[c])
            /\ result[c].total_records = 0
            /\ \A k \in 1..Len(session[c].new) : \A i \in 1..Len(store) :
                    Identity(session[c].new[k]) # Identity(store[i])

\* C20 witness: both calls ran their lookups before either committed, with
\* one valid draft in the files: each call counted one insert and the table
\* holds two rows of that draft's identity.
C20_Witness ==
    /\ \A c \in Callers : pc[c] = "done" /\ result[c].status = "ok" /\ ~Serialized(c)
    /\ \A c \in Callers : Len(qb_data[c]) = 1 /\ rootfi_data[c] = <<>>
    /\ \A c \in Callers : result[c].quickbooks_records = 1 /\ result[c].total_records = 1
    /\ Len(store) = 2
    /\ Identity(store[1]) = Identity(store[2])

\* ------------------------------------- two calls that update one stored record
\* Records of one month of the line-item document that differ in revenue
\* and in operating_profit.
MonthRecords ==
    {[period_start |-> "2024-01-01", period_end |-> "2024-01-31", revenue |-> rev,
      operating_profit |-> Num(op)] : rev \in {100, 250}, op \in {10, 20}}

\* Two callers on a table that holds the record of an earlier load of the
\* files.
InitConverge ==
    /\ \E r \in MonthRecords :
          /\ files = [qb |-> FileOf("ok", <<>>), rootfi |-> FileOf("ok", <<r>>)]
          /\ store = Flushed(<<>>, ForLoop(<<>>, transform_data(<<r>>)))
    /\ lastRun = "none"
    /\ pc = [c \in {1, 2} |-> "idle"]
    /\ qb_data = [c \in {1, 2} |-> <<>>]
    /\ rootfi_data = [c \in {1, 2} |-> <<>>]
    /\ qb_count = [c \in {1, 2} |-> 0]
    /\ result = [c \in {1, 2} |-> NoResult]
    /\ before = [c \in {1, 2} |-> <<>>]
    /\ prior = [c \in {1, 2} |-> "none"]
    /\ session = [c \in {1, 2} |-> EmptySession]
    /\ arg = <<>>
    /\ ret = <<>>

\* The Rootfi file is written anew with other values for its month, while
\* a caller has not read it yet.
Rewrite ==
    /\ \E c \in DOMAIN pc : pc[c] = "idle"
    /\ \E r \in MonthRecords :
          /\ files.rootfi.content # <<r>>
          /\ files' = [files EXCEPT !.rootfi.content = <<r>>]
    /\ UNCHANGED <<store, lastRun, pc>>
    /\ UNCHANGED locals
    /\ UNCHANGED aux

NextConverge ==
    \/ \E c \in DOMAIN pc : Start(c)
    \/ \E c \in DOMAIN pc : Lookups(c)
    \/ \E c \in DOMAIN pc : Commit(c)
    \/ Rewrite

ConvergeSpec == InitConverge /\ [][NextConverge]_vars

\* The columns a draft assigns are, in row, those of draft d.
CarriesValuesOf(row, d) ==
    \A k \in UpdatableColumns : SameValue(row[k], d[k])

\* C21: when both calls have returned, the one stored record of the month
\* carries in all the columns a draft assigns the values of the draft of one
\* of the two calls, never some of one call and some of the other.
C21_LastWriterWins ==
    (\A c \in Callers : pc[c] = "done" /\ result[c].status = "ok") =>
        /\ Len(store) = 1
        /\ \E c \in Callers : CarriesValuesOf(store[1], rootfi_data[c][1])

\* ------------------------------------------------- the envelope of a document
\* A JSON document as json.load returns it.  The value under 'data' of the
\* line-item document is [list |-> records], an object given by its keys
\* [dict |-> keys], a string [str |-> text] or null.

\* QuickBooksParser.parse_file on a file that is read as JSON document doc:
\* data['data'] raises KeyError inside _extract_monthly_data.
QB_parse_file(doc) ==
    IF "data" \notin DOMAIN doc
    THEN Raise("DataSourceError", <<"Failed to parse QuickBooks data: ", "KeyError">>)
    ELSE QB_parse_document(doc["data"])

\* RootfiParser.parse_file on a file that is read as JSON document doc:
\* data['data'] raises KeyError; the for loop of _transform_data raises
\* TypeError on null, and on the keys of an object or the characters of a
\* string when it indexes them with 'period_start'; over an empty object or
\* an empty string it runs no iteration and the empty list is returned.
Rootfi_parse_file(doc) ==
    LET TypeError == Raise("DataSourceError", <<"Failed to parse Rootfi data: ", "TypeError">>)
    IN  IF "data" \notin DOMAIN doc
        THEN Raise("DataSourceError", <<"Failed to parse Rootfi data: ", "KeyError">>)
        ELSE CASE "list" \in DOMAIN doc["data"] -> Rootfi_parse_document(doc["data"].list)
               [] "dict" \in DOMAIN doc["data"] ->
                    IF doc["data"].dict = <<>> THEN Return(<<>>) ELSE TypeError
               [] "str" \in DOMAIN doc["data"] ->
                    IF doc["data"].str = "" THEN Return(<<>>) ELSE TypeError
               [] OTHER -> TypeError

\* The documents of the model: a report or a record list under 'data' or
\* under another key; a report without its Columns section, a report
\* without any section; an object (empty, or with the key 'records'), a
\* string (empty or not) or null in the place of the record list.
EnvelopeDocuments ==
    LET reports == QBDocuments
                    \cup {[k \in DOMAIN d \ {"Columns"} |-> d[k]] : d \in QBDocuments}
                    \cup {EmptyDict}
        lists == {[list |-> recs] : recs \in RootfiDocuments}
                    \cup {[dict |-> <<>>], [dict |-> <<"records">>],
                          Str(""), Str("none"), Null}
    IN  [path : {QUICKBOOKS_DATA_FILE}, doc : {[data |-> d] : d \in reports}]
            \cup [path : {QUICKBOOKS_DATA_FILE}, doc : {[report |-> d] : d \in reports}]
            \cup [path : {ROOTFI_DATA_FILE}, doc : {[data |-> v] : v \in lists}]
            \cup [path : {ROOTFI_DATA_FILE}, doc : {[records |-> v] : v \in lists}]

InitEnvelope ==
    /\ NoLoad
    /\ arg \in EnvelopeDocuments
    /\ ret = <<>>

\* parse_file of the parser of the file is called on a file that holds
\* the document arg.doc.
ParseFile ==
    /\ ret = <<>>
    /\ ret' = <<IF arg.path = QUICKBOOKS_DATA_FILE
                THEN QB_parse_file(arg.doc) ELSE Rootfi_parse_file(arg.doc)>>
    /\ UNCHANGED arg
    /\ UNCHANGED load

NextEnvelope ==
    \/ ParseFile
    \/ LoadParsed

EnvelopeSpec == InitEnvelope /\ [][NextEnvelope]_vars

\* The document lacks its envelope: no 'data', a report without its Columns
\* or its Rows section, or no list of records.
Malformed(a) ==
    \/ "data" \notin DOMAIN a.doc
    \/ a.path = QUICKBOOKS_DATA_FILE /\ ~HasEnvelope(a.doc["data"])
    \/ a.path = ROOTFI_DATA_FILE /\ "list" \notin DOMAIN a.doc["data"]

\* C22: the parser of a document without its envelope raises
\* DataSourceError, returns no drafts, and nothing of the document is stored.
C22_EnvelopeFatal ==
    ret # <<>> /\ Malformed(arg) =>
        /\ ret[1].exc = "DataSourceError"
        /\ ret[1].data = <<>>
        /\ store = <<>>

\* ------------------------------------------- the cells a QuickBooks draft reads
\* The positions of the columns of the report that give a draft, in order.
MonthPositions(doc) ==
    LET F[k \in 0..Len(doc["Columns"]["Column"])] ==
            IF k = 0 THEN <<>>
            ELSE IF MonthOfReport(doc, k) THEN Append(F[k - 1], k) ELSE F[k - 1]
    IN  F[Len(doc["Columns"]["Column"])]

\* The rows of the report with a Summary whose group is g.
SummaryRows(doc, g) ==
    {i \in 1..Len(doc["Rows"]["Row"]) :
        /\ "Summary" \in DOMAIN doc["Rows"]["Row"][i]
        /\ "group" \in DOMAIN doc["Rows"]["Row"][i]
        /\ doc["Rows"]["Row"][i]["group"] = g}

\* The amount of cell k of a cell list: 0 for a cell without value or with
\* an empty one.
CellAmount(cells, k) ==
    IF "value" \notin DOMAIN cells[k] \/ cells[k]["value"] = "" THEN 0
    ELSE parse_value(cells[k]["value"])

\* The amount of the Summary of the row of group g at position k, 0 without
\* such a row (the last one when there are several).
SummaryAmount(doc, g, k) ==
    IF SummaryRows(doc, g) = {} THEN 0
    ELSE LET i == CHOOSE i \in SummaryRows(doc, g) : \A j \in SummaryRows(doc, g) : j <= i
         IN  CellAmount(doc["Rows"]["Row"][i]["Summary"]["ColData"], k)

GroupOfMetric ==
    [revenue |-> "Income", cost_of_goods_sold |-> "COGS", gross_profit |-> "GrossProfit",
     operating_expenses |-> "Expenses", net_profit |-> "NetIncome"]

\* C23: the draft of the column at position k of a well-formed report has
\* as revenue, cost_of_goods_sold, gross_profit, operating_expenses and
\* net_profit the Summary cell at position k of the row of group Income,
\* COGS, GrossProfit, Expenses and NetIncome, whatever columns before it gave
\* no draft; 0 for an empty cell, a cell without value and a group without
\* row.
C23_ColumnAlignment ==
    ParsedQB /\ WellFormedReport(arg.data) =>
        /\ ret[1].exc = "ok"
        /\ Len(ret[1].data) = Len(MonthPositions(arg.data))
        /\ \A j \in 1..Len(ret[1].data) : \A f \in DOMAIN GroupOfMetric :
                ret[1].data[j][f] =
                    Num(SummaryAmount(arg.data, GroupOfMetric[f], MonthPositions(arg.data)[j]))

\* C23 witness: in a report with the columns Account, Total, Jan 2024 and
\* the rows of repeated groups, the one draft has the amounts of position 3:
\* revenue 1200, cost_of_goods_sold 0 (a cell without value).
C23_Witness ==
    /\ ParsedQB /\ WellFormedReport(arg.data)
    /\ Len(arg.data["Columns"]["Column"]) = 3
    /\ arg.data["Columns"]["Column"][2]["ColTitle"] = "Total"
    /\ arg.data["Columns"]["Column"][3]["ColTitle"] = "Jan 2024"
    /\ arg.data["Rows"]["Row"] = RepeatedRows(3)
    /\ ret[1].exc = "ok" /\ Len(ret[1].data) = 1
    /\ ret[1].data[1]["revenue"] = Num(1200)
    /\ ret[1].data[1]["cost_of_goods_sold"] = Num(0)
    /\ ret[1].data[1]["operating_expenses"] = Num(50)

\* The direct child rows of a row.
ChildRows(row) == IF "Rows" \in DOMAIN row THEN row["Rows"]["Row"] ELSE <<>>

\* The cells of a child row: those of its Header when it has one, its plain
\* cell list otherwise.
ChildCells(sub) == IF "Header" \in DOMAIN sub THEN sub["Header"]["ColData"] ELSE sub["ColData"]

\* The breakdown the contract gives a row at position k: the first cell of
\* every direct child whose cell k is not 0, with that amount (of the last
\* such child when a label comes twice).
BreakdownAt(row, k) ==
    LET subs == ChildRows(row)
        kept == {j \in 1..Len(subs) :
                    /\ "Header" \in DOMAIN subs[j] \/ "ColData" \in DOMAIN subs[j]
                    /\ CellAmount(ChildCells(subs[j]), k) # 0}
        Label(j) == ChildCells(subs[j])[1]["value"]
    IN  [n \in {Label(j) : j \in kept} |->
            LET j == CHOOSE j \in kept :
                        Label(j) = n /\ \A i \in kept : Label(i) = n => i <= j
            IN  CellAmount(ChildCells(subs[j]), k)]

\* The breakdown the contract gives the report for group g at position k:
\* that of the row of the group that has a Summary (the last one when there
\* are several), empty without such a row.
GroupBreakdown(doc, g, k) ==
    IF SummaryRows(doc, g) = {} THEN EmptyDict
    ELSE LET i == CHOOSE i \in SummaryRows(doc, g) : \A j \in SummaryRows(doc, g) : j <= i
         IN  BreakdownAt(doc["Rows"]["Row"][i], k)

\* C24: the revenue_breakdown and the expense_breakdown of the draft of the
\* column at position k hold exactly the direct child rows of the Income
\* row and of the Expenses row whose cell k is not 0, under the first cell of
\* the child (of its Header when it has one); rows nested in a child and
\* rows of other groups give no entry.
C24_BreakdownOneLevel ==
    ParsedQB /\ WellFormedReport(arg.data) /\ ret[1].exc = "ok" =>
        \A j \in 1..Len(ret[1].data) :
            LET k == MonthPositions(arg.data)[j]
            IN  /\ SameValue(ret[1].data[j]["revenue_breakdown"],
                             GroupBreakdown(arg.data, "Income", k))
                /\ SameValue(ret[1].data[j]["expense_breakdown"],
                             GroupBreakdown(arg.data, "Expenses", k))

\* C24 witness: in a report whose Income row has the child Sales with a
\* Header (and a plain cell list worth 50) and the row Online nested in it,
\* the draft of the first month has Sales 100 alone as revenue_breakdown.
C24_Witness ==
    /\ ParsedQB /\ WellFormedReport(arg.data)
    /\ Len(arg.data["Columns"]["Column"]) = 2
    /\ arg.data["Rows"]["Row"] = RepeatedRows(2)
    /\ ret[1].exc = "ok" /\ Len(ret[1].data) = 1
    /\ ret[1].data[1]["revenue_breakdown"] = [Sales |-> 100]
    /\ ret[1].data[1]["expense_breakdown"] = [Wages |-> 50]

\* C27: when several rows with a Summary have the group of a metric, the
\* draft has for that group the amount and the breakdown of the last of
\* them, not of an earlier one and not their sum; a row without Summary
\* gives nothing.
C27_LastRowOfGroup ==
    ParsedQB /\ WellFormedReport(arg.data) /\ ret[1].exc = "ok" =>
        \A j \in 1..Len(ret[1].data) : \A f \in DOMAIN GroupOfMetric :
            \A i \in SummaryRows(arg.data, GroupOfMetric[f]) :
                (\A h \in SummaryRows(arg.data, GroupOfMetric[f]) : h <= i) =>
                    LET row == arg.data["Rows"]["Row"][i]
                        k == MonthPositions(arg.data)[j]
                    IN  /\ ret[1].data[j][f] = Num(CellAmount(row["Summary"]["ColData"], k))
                        /\ f = "revenue" =>
                             SameValue(ret[1].data[j]["revenue_breakdown"], BreakdownAt(row, k))
                        /\ f = "operating_expenses" =>
                             SameValue(ret[1].data[j]["expense_breakdown"], BreakdownAt(row, k))

\* C27 witness: a report with two Income rows (Summary 50 with the account
\* Old, then Summary 100 with Sales), an Income row without Summary after
\* them and two Expenses rows (Summary 100, then 50) was parsed: revenue is
\* 100 with Sales alone, operating_expenses 50 with Wages alone.
C27_Witness ==
    /\ ParsedQB /\ WellFormedReport(arg.data)
    /\ Len(arg.data["Columns"]["Column"]) = 2
    /\ Cardinality(SummaryRows(arg.data, "Income")) = 2
    /\ Cardinality(SummaryRows(arg.data, "Expenses")) = 2
    /\ ret[1].exc = "ok" /\ Len(ret[1].data) = 1
    /\ ret[1].data[1]["revenue"] = Num(100)
    /\ "Old" \notin DOMAIN ret[1].data[1]["revenue_breakdown"]
    /\ "Ghost" \notin DOMAIN ret[1].data[1]["revenue_breakdown"]
    /\ ret[1].data[1]["operating_expenses"] = Num(50)
    /\ "Rent" \notin DOMAIN ret[1].data[1]["expense_breakdown"]

BatchRecords ==
    {[period_start |-> "2024-01-01", period_end |-> "2024-01-31", revenue |-> 100,
      operating_profit |-> Num(10)],
     [period_start |-> "2024-01-01", period_end |-> "2024-01-31", revenue |-> 250,
      operating_profit |-> Num(10)],
     [period_start |-> "2024-01-01", period_end |-> "2024-01-31", revenue |-> 100,
      operating_profit |-> Obj]}

\* One caller on an empty table; the report has one month.
InitBatch ==
    /\ files = [qb |-> FileOf("ok", <<[StartDate |-> "2024-01-01", EndDate |-> "2024-01-31",
                                       value |-> 100]>>),
                rootfi |-> FileOf("ok", <<>>)]
    /\ store = <<>>
    /\ lastRun = "none"
    /\ pc = [c \in {1} |-> "idle"]
    /\ qb_data = [c \in {1} |-> <<>>]
    /\ rootfi_data = [c \in {1} |-> <<>>]
    /\ qb_count = [c \in {1} |-> 0]
    /\ result = [c \in {1} |-> NoResult]
    /\ before = [c \in {1} |-> <<>>]
    /\ prior = [c \in {1} |-> "none"]
    /\ session = [c \in {1} |-> EmptySession]
    /\ arg = <<>>
    /\ ret = <<>>

\* The Rootfi file is replaced between two loads.
Replace ==
    /\ \A c \in DOMAIN pc : pc[c] = "idle"
    /\ \E recs \in SeqsUpTo(BatchRecords, MaxRootfi + 1) :
          /\ recs # files.rootfi.content
          /\ files' = [files EXCEPT !.rootfi.content = recs]
    /\ lastRun' = "none"
    /\ UNCHANGED <<store, pc>>
    /\ UNCHANGED locals
    /\ UNCHANGED aux

NextBatch ==
    \/ \E c \in DOMAIN pc : Start(c)
    \/ \E c \in DOMAIN pc : Lookups(c)
    \/ \E c \in DOMAIN pc : Commit(c)
    \/ \E c \in DOMAIN pc : Close(c)
    \/ Replace

BatchSpec == InitBatch /\ [][NextBatch]_vars

\* The batch whose commit caller c is about to run.
Committing(c) == IF pc[c] = "qb_commit" THEN qb_data[c] ELSE rootfi_data[c]

\* C26: the committed table changes in the commit of a batch only, after
\* the loop over all its drafts; a commit that succeeds writes the batch as
\* a whole, and a batch whose commit fails leaves the table as it was, with
\* the QuickBooks batch the same call committed before.
C26_BatchCommit ==
    [][\A c \in Callers :
        /\ store' # store => pc[c] \in {"qb_commit", "rootfi_commit"} /\ pc'[c] # pc[c]
        /\ pc[c] \in {"qb_commit", "rootfi_commit"} /\ pc'[c] # pc[c] =>
              IF result'[c].status \notin {"ok", "none"}
              THEN /\ store' = store
                   /\ pc[c] = "rootfi_commit" =>
                        \A k \in 1..Len(qb_data[c]) :
                            LastOfIdentity(qb_data[c], k) => Upserted(store', qb_data[c][k])
              ELSE \A k \in 1..Len(Committing(c)) :
                        LastOfIdentity(Committing(c), k) => Upserted(store', Committing(c)[k])
      ]_vars

\* C26 witness: on an empty table, a call inserted the month of the report
\* and then failed in the commit of a Rootfi batch of two records, the
\* first of which is valid and can be written: the table holds the
\* QuickBooks record and no Rootfi record.
C26_Witness ==
    \E c \in Callers :
        /\ pc[c] = "done" /\ result[c].status = "DataProcessingError"
        /\ before[c] = <<>> /\ qb_count[c] = 1
        /\ Len(rootfi_data[c]) = 2
        /\ Valid(rootfi_data[c][1]) /\ ~Unbindable(NewPeriod(rootfi_data[c][1]))
        /\ Len(store) = 1 /\ store[1].source = "quickbooks"

\* ------------------------------------------------------------- the summary
\* The value a query reads from a Float column: SQLite stores NaN as NULL.
ColumnRead(v) == IF IsNaN(v) THEN Null ELSE v

\* DataService.get_summary_statistics on table st: {} when there is no
\* record; otherwise the count, the first start and last end date, the
\* sums of revenue, operating_expenses and net_profit over all records, and
\* the two averages (as <<total, count>>).  sum() raises TypeError when a
\* record has None in one of the three columns.
get_summary_statistics(st) ==
    LET periods == st
        Total(f) ==
            LET F[k \in 0..Len(periods)] ==
                    IF k = 0 THEN 0 ELSE F[k - 1] + periods[k][f].num
            IN  F[Len(periods)]
    IN  IF periods = <<>> THEN Ok(EmptyDict)
        ELSE IF \E k \in 1..Len(periods) :
                    \E f \in {"revenue", "operating_expenses", "net_profit"} :
                        ColumnRead(periods[k][f]) = Null
        THEN Exc("TypeError")
        ELSE Ok([total_periods |-> Len(periods),
                 date_range |->
                    [start |-> periods[CHOOSE i \in 1..Len(periods) :
                                    \A j \in 1..Len(periods) :
                                        ~DateLess(periods[j].period_start,
                                                  periods[i].period_start)].period_start,
                     end |-> periods[CHOOSE i \in 1..Len(periods) :
                                    \A j \in 1..Len(periods) :
                                        ~DateLess(periods[i].period_end,
                                                  periods[j].period_end)].period_end],
                 total_revenue |-> Total("revenue"),
                 total_expenses |-> Total("operating_expenses"),
                 total_profit |-> Total("net_profit"),
                 average_monthly_revenue |-> <<Total("revenue"), Len(periods)>>,
                 average_monthly_profit |-> <<Total("net_profit"), Len(periods)>>])

\* The summary endpoint (get_summary) on table st: 404 for the empty
\* result, 500 for an exception, the statistics otherwise.
get_summary(st) ==
    LET stats == get_summary_statistics(st)
    IN  CASE stats.exc # "ok" ->
                [status |-> 500, detail |-> <<"Error generating summary: ", stats.exc>>]
          [] DOMAIN stats.val = {} ->
                [status |-> 404, detail |-> <<"No financial data found">>]
          [] OTHER -> [status |-> 200, detail |-> stats.val]

\* The sum of column f over the records of table st.
ColumnSum(st, f) == SumOf([i \in 1..Len(st) |-> st[i][f].num])

\* C28: on an empty table get_summary_statistics returns the empty result
\* and the endpoint answers 404; on any other table the endpoint succeeds
\* with total_periods the number of records of both sources and the totals
\* the sums of revenue, operating_expenses and net_profit over all of them.
C28_SummaryAfterLoad ==
    IF store = <<>>
    THEN get_summary_statistics(store) = Ok(EmptyDict) /\ get_summary(store).status = 404
    ELSE /\ get_summary(store).status = 200
         /\ get_summary(store).detail.total_periods = Len(store)
         /\ get_summary(store).detail.total_revenue = ColumnSum(store, "revenue")
         /\ get_summary(store).detail.total_expenses = ColumnSum(store, "operating_expenses")
         /\ get_summary(store).detail.total_profit = ColumnSum(store, "net_profit")

====
